---- MODULE Spec2Model ----
(***************************************************************************)
(* The artemis API gateway: the HTTP handlers of package handlers and the  *)
(* upstream clients of packages govee, firetv and camera, as a state       *)
(* machine.  One action is one handler invocation, from the method check   *)
(* to the response; the upstream's answers are the action's inputs.        *)
(***************************************************************************)
EXTENDS Integers, Sequences, FiniteSets, TLC

VARIABLES
    goveeClients,   \* number of configured govee clients (main: 1 or 2)
    bridgeURL,      \* the camera client's bridge URL
    pc,             \* "idle": waiting for a request; "done": a response was written
    handler,        \* the handler that served the last request
    req,            \* the last request, as the handler received it
    resp,           \* the response envelope written for it
    payload,        \* the domain data of the response
    calls,          \* adapter operations invoked while handling it, in order
    upstream,       \* upstream HTTP requests sent while handling it, in order
    answers,        \* what the upstream answered to each of them
    inflight,       \* requests being handled at the same time, each with its own locals
    logged,         \* log lines written while handling the last request that print a PIN
    earlier         \* the requests served before the last one, oldest first (a history)

vars == <<goveeClients, bridgeURL, pc, handler, req, resp, payload, calls, upstream, answers, inflight,
          logged, earlier>>

(***************************************************************************)
(* Bounds of the model.                                                    *)
(***************************************************************************)
MaxClients == 2     \* configured govee accounts
MaxDevices == 2     \* devices one account lists
MaxProps == 2       \* property maps in one state answer
NumMargin == 1      \* how far numeric inputs reach beyond each range edge
MaxPinLen == 3      \* characters of a PIN
MaxInFlight == 2    \* requests handled at the same time
MaxEarlier == 2     \* requests remembered before the last one

(***************************************************************************)
(* Program constants.                                                      *)
(***************************************************************************)
MaxBrightness == 100
MaxChannel == 255
StatusOK == 200
StatusBadRequest == 400
StatusNotFound == 404
StatusMethodNotAllowed == 405
StatusInternalServerError == 500

(***************************************************************************)
(* JSON values.  A number is kept in halves (h is twice the value), so that 50.5  *)
(* is a value and int(float64) has something to truncate.                  *)
(***************************************************************************)
JNull == [t |-> "null", b |-> FALSE, h |-> 0]
JBool(b) == [t |-> "bool", b |-> b, h |-> 0]
JNum(h) == [t |-> "num", b |-> FALSE, h |-> h]
JStr == [t |-> "str", b |-> FALSE, h |-> 0]
JAbsent == [t |-> "absent", b |-> FALSE, h |-> 0]
JObj(r, g, b) == [t |-> "obj", b |-> FALSE, h |-> 0, r |-> r, g |-> g, bl |-> b]

\* Go's int(f) on a float64: truncation toward zero.
IntOf(h) == IF h >= 0 THEN h \div 2 ELSE -((-h) \div 2)

RECURSIVE SeqsUpTo(_, _)
SeqsUpTo(S, n) ==
    IF n = 0 THEN {<<>>}
    ELSE LET shorter == SeqsUpTo(S, n - 1)
         IN shorter \cup {Append(s, x) : s \in {q \in shorter : Len(q) = n - 1}, x \in S}

(***************************************************************************)
(* Errors a client returns.  kind "nil" is Go's nil error.                 *)
(***************************************************************************)
\* ctx is the text a handler puts in front of err.Error().
NilErr == [ctx |-> "", kind |-> "nil", status |-> 0, code |-> 0, msg |-> ""]
Err(kind, status, code, msg) ==
    [ctx |-> "", kind |-> kind, status |-> status, code |-> code, msg |-> msg]

(***************************************************************************)
(* Upstream answers of the govee API.                                      *)
(***************************************************************************)
\* transport: the request never got an answer; otherwise an HTTP status and a
\* body that either parses as a JSON object (with code and message) or is text.
GoveeReply(transport, status, parses, code, msg) ==
    [transport |-> transport, status |-> status, parses |-> parses, code |-> code, msg |-> msg]

ControlReplies ==
    {GoveeReply(TRUE, 0, FALSE, 0, "")}
    \cup {GoveeReply(FALSE, s, FALSE, 0, "raw body") : s \in {StatusOK, StatusInternalServerError}}
    \cup {GoveeReply(FALSE, StatusOK, TRUE, c, "Success") : c \in {StatusOK, StatusBadRequest}}
    \cup {GoveeReply(FALSE, s, TRUE, s, "Bad request") : s \in {StatusBadRequest, 429}}
    \cup {GoveeReply(FALSE, StatusInternalServerError, TRUE, 0, "")}

\* What one control request carries upstream: the API key of client `key`.
ControlSent(key, deviceID, model, cmdName, value) ==
    [api |-> "govee", method |-> "PUT", endpoint |-> "/v1/devices/control",
     key |-> key, device |-> deviceID, model |-> model, cmd |-> cmdName, value |-> value]

CmdStr(s) == [t |-> "str", s |-> s, n |-> 0, r |-> 0, g |-> 0, b |-> 0]
CmdInt(n) == [t |-> "int", s |-> "", n |-> n, r |-> 0, g |-> 0, b |-> 0]
CmdColor(r, g, b) == [t |-> "color", s |-> "", n |-> 0, r |-> r, g |-> g, b |-> b]

\* The result of a client operation: its error and the requests it sent.
\* (answers: the upstream answers it read, one per request sent.)
OpResult(err, sent) == [err |-> err, sent |-> sent, answers |-> <<>>]

sendControlCommandRetrying(key, deviceID, model, cmdName, value, reply) ==
    LET request == ControlSent(key, deviceID, model, cmdName, value)
    IN  IF reply.transport
        THEN [err |-> Err("failed to send control command", 0, 0, ""),
              sent |-> <<request, request>>, answers |-> <<reply, reply>>]
        ELSE [err |-> IF reply.status = StatusOK /\ reply.parses /\ reply.code = StatusOK
                      THEN NilErr ELSE Err("govee API error", 0, reply.code, reply.msg),
              sent |-> <<request>>, answers |-> <<reply>>]

sendControlCommandByStatus(key, deviceID, model, cmdName, value, reply) ==
    [err |-> IF reply.transport THEN Err("failed to send control command", 0, 0, "")
             ELSE IF reply.status # StatusOK THEN Err("HTTP error", reply.status, 0, reply.msg)
             ELSE NilErr,
     sent |-> <<ControlSent(key, deviceID, model, cmdName, value)>>, answers |-> <<reply>>]

\* govee.Client.sendControlCommand
sendControlCommand(key, deviceID, model, cmdName, value, reply) ==
    LET sent == <<ControlSent(key, deviceID, model, cmdName, value)>>
        return(e) == [err |-> e, sent |-> sent, answers |-> <<reply>>]
    IN  IF reply.transport
        THEN return(Err("failed to send control command", 0, 0, ""))
        ELSE IF reply.status # StatusOK
        THEN IF reply.parses
             THEN return(Err("govee API error", 0, reply.code, reply.msg))
             ELSE return(Err("HTTP error", reply.status, 0, reply.msg))
        ELSE IF ~reply.parses
        THEN return(Err("failed to parse response", 0, 0, ""))
        ELSE IF reply.code # StatusOK
        THEN return(Err("govee API error", 0, reply.code, reply.msg))
        ELSE return(NilErr)

\* govee.Client.TurnOn
TurnOn(key, deviceID, model, reply) ==
    sendControlCommand(key, deviceID, model, "turn", CmdStr("on"), reply)

TurnOffSendingOn(key, deviceID, model, reply) ==
    sendControlCommand(key, deviceID, model, "turn", CmdStr("on"), reply)

\* govee.Client.TurnOff
TurnOff(key, deviceID, model, reply) ==
    sendControlCommand(key, deviceID, model, "turn", CmdStr("off"), reply)

SetBrightnessNoLowerCheck(key, deviceID, model, level, reply) ==
    IF level > MaxBrightness
    THEN OpResult(Err("brightness must be between 0 and 100", 0, level, ""), <<>>)
    ELSE sendControlCommand(key, deviceID, model, "brightness", CmdInt(level), reply)

\* govee.Client.SetBrightness
SetBrightness(key, deviceID, model, level, reply) ==
    IF level < 0 \/ level > MaxBrightness
    THEN OpResult(Err("brightness must be between 0 and 100", 0, level, ""), <<>>)
    ELSE sendControlCommand(key, deviceID, model, "brightness", CmdInt(level), reply)

SetColorChecksRedOnly(key, deviceID, model, r, g, b, reply) ==
    IF r < 0 \/ r > MaxChannel
    THEN OpResult(Err("RGB values must be between 0 and 255", 0, 0, ""), <<>>)
    ELSE sendControlCommand(key, deviceID, model, "color", CmdColor(r, g, b), reply)

\* govee.Client.SetColor
SetColor(key, deviceID, model, r, g, b, reply) ==
    IF r < 0 \/ r > MaxChannel \/ g < 0 \/ g > MaxChannel \/ b < 0 \/ b > MaxChannel
    THEN OpResult(Err("RGB values must be between 0 and 255", 0, 0, ""), <<>>)
    ELSE sendControlCommand(key, deviceID, model, "color", CmdColor(r, g, b), reply)

(***************************************************************************)
(* Responses.  http.Error writes a text/plain body; the send*Error helpers *)
(* and the success paths write JSON.  envelope says whether the JSON body  *)
(* carries the success flag and the message.                               *)
(***************************************************************************)
Msg(text) == Err(text, 0, 0, "")
TextResp(status, text) ==
    [status |-> status, ctype |-> "text", envelope |-> FALSE, success |-> FALSE, message |-> Msg(text)]
JsonResp(status, success, message) ==
    [status |-> status, ctype |-> "json", envelope |-> TRUE, success |-> success, message |-> message]
BareJsonResp(status) ==
    [status |-> status, ctype |-> "json", envelope |-> FALSE, success |-> FALSE, message |-> Msg("")]

NoPayload == [t |-> "none"]
Outcome(r, p, c, u) ==
    [resp |-> r, payload |-> p, calls |-> c, upstream |-> u, answers |-> <<>>, logged |-> <<>>]
Answered(out, replies) == [out EXCEPT !.answers = replies]

sendErrorResponsePlain(deviceID, message) ==
    Outcome(TextResp(StatusBadRequest, "Bad request"), [t |-> "control", deviceId |-> deviceID], <<>>, <<>>)

\* handlers.sendErrorResponse
sendErrorResponse(deviceID, message) ==
    Outcome(JsonResp(StatusBadRequest, FALSE, message), [t |-> "control", deviceId |-> deviceID], <<>>, <<>>)

(***************************************************************************)
(* HandleControlDevice                                                     *)
(***************************************************************************)
\* One adapter operation a handler invoked, and (err) what it returned.
Call(client, op, deviceID, model, level, r, g, b) ==
    [client |-> client, op |-> op, deviceID |-> deviceID, model |-> model,
     level |-> level, r |-> r, g |-> g, b |-> b, err |-> NilErr]
Returned(call, res) == [call EXCEPT !.err = res.err]

AssertBoolNilAsFalse(v) == v.t \in {"bool", "null"}

\* req.Value.(bool)
AssertBool(v) == v.t = "bool"

\* x.(float64): what encoding/json decodes a JSON number to.
AssertFloat64(v) == v.t = "num"

\* req.Value.(map[string]interface{})
AssertMap(v) == v.t = "obj"

CommandIsFold(command, name) ==
    (IF command = "Turn" THEN "turn" ELSE command) = name

\* A case of the switch on req.Command: Go compares strings exactly.
CommandIs(command, name) == command = name

\* json.Decoder.Decode into ControlRequest: the body must be JSON and
\* apiKeyIndex, when present, an integral number (the field is an int).
ControlDecodes(body) ==
    /\ ~body.malformed
    /\ \/ body.apiKeyIndex.t = "absent"
       \/ body.apiKeyIndex.t = "num" /\ body.apiKeyIndex.h % 2 = 0

\* ControlRequest.APIKeyIndex after decoding: an absent field stays 0.
DecodedIndex(body) ==
    IF body.apiKeyIndex.t = "num" THEN body.apiKeyIndex.h \div 2 ELSE 0

ControlFinishIgnoringError(body, call, res) ==
    Answered(Outcome(JsonResp(StatusOK, TRUE, Msg("Device controlled successfully")),
                     [t |-> "control", deviceId |-> body.deviceId],
                     <<Returned(call, res)>>, res.sent),
             res.answers)

\* The adapter operation finished: the error check and the success response.
ControlFinish(body, call, res) ==
    IF res.err # NilErr
    THEN [sendErrorResponse(body.deviceId, res.err) EXCEPT
              !.calls = <<Returned(call, res)>>, !.upstream = res.sent, !.answers = res.answers]
    ELSE Answered(Outcome(JsonResp(StatusOK, TRUE, Msg("Device controlled successfully")),
                          [t |-> "control", deviceId |-> body.deviceId],
                          <<Returned(call, res)>>, res.sent),
                  res.answers)

\* The switch on req.Command, entered with a valid index.
ControlDispatch(body, idx, reply) ==
    LET v == body.value
        d == body.deviceId
        m == body.model
    IN  CASE CommandIs(body.command, "turn") ->
               IF ~AssertBool(v)
               THEN sendErrorResponse(d, Msg("Invalid value for 'turn' command - expected boolean"))
               ELSE IF v.b
               THEN ControlFinish(body, Call(idx, "TurnOn", d, m, 0, 0, 0, 0), TurnOn(idx, d, m, reply))
               ELSE ControlFinish(body, Call(idx, "TurnOff", d, m, 0, 0, 0, 0), TurnOff(idx, d, m, reply))
          [] CommandIs(body.command, "brightness") ->
               IF ~AssertFloat64(v)
               THEN sendErrorResponse(d, Msg("Invalid value for 'brightness' command - expected number"))
               ELSE ControlFinish(body, Call(idx, "SetBrightness", d, m, IntOf(v.h), 0, 0, 0),
                                  SetBrightness(idx, d, m, IntOf(v.h), reply))
          [] CommandIs(body.command, "color") ->
               IF ~AssertMap(v)
               THEN sendErrorResponse(d, Msg("Invalid value for 'color' command - expected object with r, g, b"))
               ELSE IF ~AssertFloat64(v.r) \/ ~AssertFloat64(v.g) \/ ~AssertFloat64(v.bl)
               THEN sendErrorResponse(d, Msg("Color object must have r, g, b numeric fields"))
               ELSE ControlFinish(body,
                        Call(idx, "SetColor", d, m, 0, IntOf(v.r.h), IntOf(v.g.h), IntOf(v.bl.h)),
                        SetColor(idx, d, m, IntOf(v.r.h), IntOf(v.g.h), IntOf(v.bl.h), reply))
          [] OTHER -> sendErrorResponse(d, Err("Unknown command: ", 0, 0, body.command))

ValidIndexOffByOne(n, idx) == idx >= 0 /\ idx <= n

\* The API key index check of both handlers: 0 <= idx < len(goveeClients).
ValidIndex(n, idx) == idx >= 0 /\ idx < n

\* handlers.HandleControlDevice, from the method check to the response.
ControlDevice(n, r, reply) ==
    IF r.method # "POST"
    THEN Outcome(TextResp(StatusMethodNotAllowed, "Method not allowed"), NoPayload, <<>>, <<>>)
    ELSE IF ~ControlDecodes(r.body)
    THEN Outcome(TextResp(StatusBadRequest, "Invalid request body"), NoPayload, <<>>, <<>>)
    ELSE IF ~ValidIndex(n, DecodedIndex(r.body))
    THEN sendErrorResponse(r.body.deviceId, Msg("Invalid API key index"))
    ELSE ControlDispatch(r.body, DecodedIndex(r.body), reply)

(***************************************************************************)
(* The requests a client can send to the control endpoint.                 *)
(***************************************************************************)
Methods == {"GET", "POST"}
DeviceIds == {"", "AA:BB:CC"}
Models == {"", "H6159"}
Commands == {"turn", "brightness", "color", "Turn", "", "colorTem"}

\* Numbers (in halves) within NumMargin of the edges of 0..top.
AroundEdges(top) ==
    ((-2 * NumMargin)..(2 * NumMargin)) \cup ((2 * top - 2 * NumMargin)..(2 * top + 2 * NumMargin))
\* Whole numbers (in halves) within NumMargin of the edges of 0..top.
WholeAroundEdges(top) ==
    {2 * k : k \in ((-NumMargin)..0) \cup (top..(top + NumMargin))}

ScalarValues == {JNull, JStr, JBool(TRUE), JBool(FALSE)} \cup {JNum(h) : h \in AroundEdges(MaxBrightness)}
Channels == {JAbsent, JStr} \cup {JNum(h) : h \in WholeAroundEdges(MaxChannel)}
ObjectValues == {JObj(r, g, b) : r \in Channels, g \in Channels, b \in Channels}
IndexValues == {JAbsent, JStr} \cup {JNum(2 * k) : k \in (-1)..MaxClients}

ControlBody(malformed, d, m, c, v, i) ==
    [malformed |-> malformed, deviceId |-> d, model |-> m, command |-> c, value |-> v, apiKeyIndex |-> i]
MalformedBody == ControlBody(TRUE, "", "", "", JNull, JAbsent)
ControlBodies(values) ==
    {ControlBody(FALSE, d, m, c, v, i) :
        d \in DeviceIds, m \in Models, c \in Commands, v \in values, i \in IndexValues}
ControlRequests ==
    {[method |-> "POST", body |-> b] : b \in ControlBodies(ScalarValues \cup ObjectValues) \cup {MalformedBody}}
    \cup {[method |-> "GET", body |-> b] : b \in ControlBodies(ScalarValues) \cup {MalformedBody}}

(***************************************************************************)
(* HandleGetDevices                                                        *)
(***************************************************************************)
\* govee.Device, as the upstream lists it.
Device(id, model, name, cmds) ==
    [device |-> id, model |-> model, deviceName |-> name, supportCmds |-> cmds]
UpstreamDevices ==
    {Device("AA:BB:CC", "H6159", "Lamp", <<"turn", "brightness", "color">>),
     Device("DD:EE:FF", "H6046", "Strip", <<"turn">>)}
DeviceLists == SeqsUpTo(UpstreamDevices, MaxDevices)

\* An answer to GET /v1/devices.
DevicesReply(transport, status, parses, code, msg, devices) ==
    [transport |-> transport, status |-> status, parses |-> parses, code |-> code,
     msg |-> msg, devices |-> devices]
DevicesReplies ==
    {DevicesReply(TRUE, 0, FALSE, 0, "", <<>>),
     DevicesReply(FALSE, StatusInternalServerError, FALSE, 0, "raw body", <<>>),
     DevicesReply(FALSE, 401, TRUE, 401, "Invalid API key", <<>>),
     DevicesReply(FALSE, StatusOK, FALSE, 0, "raw body", <<>>)}
    \cup {DevicesReply(FALSE, StatusOK, TRUE, StatusOK, "Success", l) : l \in DeviceLists}

DevicesSent(key) ==
    [api |-> "govee", method |-> "GET", endpoint |-> "/v1/devices", key |-> key]

\* govee.Client.GetDevices: the devices, the error and the request sent.
GetDevices(key, reply) ==
    LET sent == <<DevicesSent(key)>>
        fail(e) == [devices |-> <<>>, err |-> e, sent |-> sent]
    IN  IF reply.transport
        THEN fail(Err("failed to fetch devices", 0, 0, ""))
        ELSE IF reply.status # StatusOK
        THEN IF reply.parses
             THEN fail(Err("govee API error", 0, reply.code, reply.msg))
             ELSE fail(Err("HTTP error", reply.status, 0, reply.msg))
        ELSE IF ~reply.parses
        THEN fail(Err("failed to parse response", 0, 0, ""))
        ELSE [devices |-> reply.devices, err |-> NilErr, sent |-> sent]

TagDevicePrimary(device, apiKeyIndex) ==
    [id |-> device.device, name |-> device.deviceName, model |-> device.model,
     type |-> "light", capabilities |-> device.supportCmds, apiKeyIndex |-> 0]

\* The DeviceResponse built for one device of account apiKeyIndex.
TagDevice(device, apiKeyIndex) ==
    [id |-> device.device, name |-> device.deviceName, model |-> device.model,
     type |-> "light", capabilities |-> device.supportCmds, apiKeyIndex |-> apiKeyIndex]

AppendDevicesInFront(allDevices, devices, apiKeyIndex) ==
    [k \in 1..Len(devices) |-> TagDevice(devices[k], apiKeyIndex)] \o allDevices

\* The inner loop: every device of one account appended to allDevices.
AppendDevices(allDevices, devices, apiKeyIndex) ==
    allDevices \o [k \in 1..Len(devices) |-> TagDevice(devices[k], apiKeyIndex)]

\* The outer loop over goveeClients from apiKeyIndex on; a failing client is skipped.
RECURSIVE FetchFrom(_, _, _, _)
FetchFrom(n, replies, apiKeyIndex, acc) ==
    IF apiKeyIndex >= n THEN acc
    ELSE LET res == GetDevices(apiKeyIndex, replies[apiKeyIndex])
             call == [client |-> apiKeyIndex, op |-> "GetDevices", err |-> res.err]
             all == IF res.err # NilErr THEN acc.allDevices
                    ELSE AppendDevices(acc.allDevices, res.devices, apiKeyIndex)
         IN FetchFrom(n, replies, apiKeyIndex + 1,
                      [allDevices |-> all, calls |-> Append(acc.calls, call),
                       upstream |-> acc.upstream \o res.sent,
                       answers |-> Append(acc.answers, replies[apiKeyIndex])])

\* json.Encoder.Encode of a slice: a nil slice is written as null, and
\* allDevices is nil until the first append.
EncodeSlice(items) ==
    [t |-> "devices", encoding |-> IF Len(items) = 0 THEN "null" ELSE "array", devices |-> items]

\* handlers.HandleGetDevices
GetDevicesHandler(n, r, replies) ==
    IF r.method # "GET"
    THEN Outcome(TextResp(StatusMethodNotAllowed, "Method not allowed"), NoPayload, <<>>, <<>>)
    ELSE LET done == FetchFrom(n, replies, 0,
                               [allDevices |-> <<>>, calls |-> <<>>, upstream |-> <<>>, answers |-> <<>>])
         IN Answered(Outcome(BareJsonResp(StatusOK), EncodeSlice(done.allDevices),
                             done.calls, done.upstream),
                     done.answers)

(***************************************************************************)
(* HandleGetDeviceState                                                    *)
(***************************************************************************)
\* Values of the loosely typed property maps.
PBool(b) == [t |-> "bool", b |-> b, s |-> ""]
PStr(s) == [t |-> "str", b |-> FALSE, s |-> s]
PNum == [t |-> "num", b |-> FALSE, s |-> ""]

\* The key sets of the maps: none, the power keys, or another property alone.
PropKeySets == SUBSET {"online", "powerState"} \cup {{"brightness"}}
PropValues(key) ==
    CASE key = "online" -> {PBool(TRUE), PBool(FALSE), PStr("true")}
      [] key = "powerState" -> {PStr("on"), PStr("off"), PStr("ON"), PNum}
      [] OTHER -> {PNum}
PropMaps ==
    UNION {{m \in [K -> {PBool(TRUE), PBool(FALSE), PStr("true"), PStr("on"), PStr("off"), PStr("ON"), PNum}] :
                \A k \in K : m[k] \in PropValues(k)} : K \in PropKeySets}
PropLists == SeqsUpTo(PropMaps, MaxProps)

StateReply(transport, status, parses, code, msg, properties) ==
    [transport |-> transport, status |-> status, parses |-> parses, code |-> code,
     msg |-> msg, properties |-> properties]
StateReplies ==
    {StateReply(TRUE, 0, FALSE, 0, "", <<>>),
     StateReply(FALSE, StatusInternalServerError, FALSE, 0, "raw body", <<>>),
     StateReply(FALSE, StatusBadRequest, TRUE, StatusBadRequest, "Bad request", <<>>),
     StateReply(FALSE, StatusOK, FALSE, 0, "raw body", <<>>)}
    \cup {StateReply(FALSE, StatusOK, TRUE, StatusOK, "Success", l) : l \in PropLists}

StateSent(key, deviceID, model) ==
    [api |-> "govee", method |-> "GET", endpoint |-> "/v1/devices/state",
     key |-> key, device |-> deviceID, model |-> model]

\* govee.Client.GetDeviceState
GetDeviceState(key, deviceID, model, reply) ==
    LET sent == <<StateSent(key, deviceID, model)>>
        fail(e) == [properties |-> <<>>, err |-> e, sent |-> sent]
    IN  IF reply.transport
        THEN fail(Err("failed to query device state", 0, 0, ""))
        ELSE IF reply.status # StatusOK
        THEN IF reply.parses
             THEN fail(Err("govee API error", 0, reply.code, reply.msg))
             ELSE fail(Err("HTTP error", reply.status, 0, reply.msg))
        ELSE IF ~reply.parses
        THEN fail(Err("failed to parse state response", 0, 0, ""))
        ELSE [properties |-> reply.properties, err |-> NilErr, sent |-> sent]

RECURSIVE ExtractPowerStateFirst(_, _)
ExtractPowerStateFirst(properties, i) ==
    IF i > Len(properties) THEN FALSE
    ELSE LET prop == properties[i]
         IN IF "powerState" \in DOMAIN prop /\ prop["powerState"].t = "str"
            THEN prop["powerState"].s = "on"
            ELSE IF "online" \in DOMAIN prop /\ prop["online"].t = "bool"
            THEN prop["online"].b
            ELSE ExtractPowerStateFirst(properties, i + 1)

RECURSIVE ExtractPowerOnlineWins(_, _)
ExtractPowerOnlineWins(properties, i) ==
    IF i > Len(properties) THEN FALSE
    ELSE LET prop == properties[i]
         IN IF "online" \in DOMAIN prop /\ prop["online"].t = "bool"
            THEN TRUE
            ELSE IF "powerState" \in DOMAIN prop /\ prop["powerState"].t = "str"
                      /\ prop["powerState"].s = "on"
            THEN TRUE
            ELSE ExtractPowerOnlineWins(properties, i + 1)

\* The loop over stateResp.Data.Properties from map i on: isOn.
RECURSIVE ExtractPower(_, _)
ExtractPower(properties, i) ==
    IF i > Len(properties) THEN FALSE
    ELSE LET prop == properties[i]
         IN IF "online" \in DOMAIN prop /\ prop["online"].t = "bool"
            THEN prop["online"].b
            ELSE IF "powerState" \in DOMAIN prop /\ prop["powerState"].t = "str"
            THEN prop["powerState"].s = "on"
            ELSE ExtractPower(properties, i + 1)

\* The apiKeyIndex query parameter: absent or empty, a number, or text that
\* fmt.Sscanf("%d") rejects.
IndexParams == {[t |-> "absent", k |-> 0], [t |-> "text", k |-> 0]}
               \cup {[t |-> "int", k |-> k] : k \in (-1)..MaxClients}

\* handlers.HandleGetDeviceState
GetDeviceStateHandler(n, r, reply) ==
    IF r.method # "GET"
    THEN Outcome(TextResp(StatusMethodNotAllowed, "Method not allowed"), NoPayload, <<>>, <<>>)
    ELSE IF r.apiKeyIndex.t = "text"
    THEN Outcome(TextResp(StatusBadRequest, "Invalid apiKeyIndex"), NoPayload, <<>>, <<>>)
    ELSE IF r.deviceId = "" \/ r.model = ""
    THEN Outcome(TextResp(StatusBadRequest, "Missing deviceId or model parameter"), NoPayload, <<>>, <<>>)
    ELSE IF ~ValidIndex(n, r.apiKeyIndex.k)
    THEN Outcome(TextResp(StatusBadRequest, "Invalid API key index"), NoPayload, <<>>, <<>>)
    ELSE LET res == GetDeviceState(r.apiKeyIndex.k, r.deviceId, r.model, reply)
             call == [client |-> r.apiKeyIndex.k, op |-> "GetDeviceState", err |-> res.err]
         IN IF res.err # NilErr
            THEN Answered(Outcome(TextResp(StatusInternalServerError, "Failed to query device state"),
                                  NoPayload, <<call>>, res.sent),
                          <<reply>>)
            ELSE Answered(Outcome(BareJsonResp(StatusOK),
                                  [t |-> "state", deviceId |-> r.deviceId,
                                   isOn |-> ExtractPower(res.properties, 1)],
                                  <<call>>, res.sent),
                          <<reply>>)

StateRequests ==
    {[method |-> m, deviceId |-> d, model |-> mo, apiKeyIndex |-> i] :
        m \in Methods, d \in DeviceIds, mo \in Models, i \in IndexParams}

(***************************************************************************)
(* HandleFireTVPair                                                        *)
(***************************************************************************)
\* A PIN is a string of characters; the empty string is <<>>.
PinChars == {"1", "2"}
Pins == SeqsUpTo(PinChars, MaxPinLen)
Hosts == {"", "10.0.0.5", "10.0.0.6"}

\* The pin field of the payload: left out, null, a string, or a number.
PinFields ==
    {[t |-> "absent", s |-> <<>>], [t |-> "null", s |-> <<>>], [t |-> "num", s |-> <<>>]}
    \cup {[t |-> "str", s |-> p] : p \in Pins}

PairReply(transport, status, parses, detail, success, awaiting) ==
    [transport |-> transport, status |-> status, parses |-> parses, detail |-> detail,
     success |-> success, message |-> "pair message", deviceName |-> "Fire TV",
     awaitingPin |-> awaiting]
PairReplies ==
    {PairReply(TRUE, 0, FALSE, "", FALSE, FALSE),
     PairReply(FALSE, StatusBadRequest, TRUE, "Invalid PIN", FALSE, FALSE),
     PairReply(FALSE, StatusInternalServerError, TRUE, "", FALSE, FALSE),
     PairReply(FALSE, StatusInternalServerError, FALSE, "", FALSE, FALSE),
     PairReply(FALSE, StatusOK, FALSE, "", FALSE, FALSE)}
    \cup {PairReply(FALSE, StatusOK, TRUE, "", su, aw) : su \in BOOLEAN, aw \in BOOLEAN}

\* The JSON of a firetv.PairRequest: pin is omitempty.
PairSent(host, pin) ==
    [api |-> "firetv", method |-> "POST", endpoint |-> "/pair", host |-> host,
     hasPin |-> pin # <<>>, pin |-> pin]

\* firetv.Client.sendPairRequest
sendPairRequest(host, pin, reply) ==
    LET sent == <<PairSent(host, pin)>>
        fail(e) == [result |-> reply, err |-> e, sent |-> sent]
    IN  IF reply.transport
        THEN fail(Err("failed to reach Fire TV service", 0, 0, ""))
        ELSE IF reply.status # StatusOK
        THEN IF reply.parses /\ reply.detail # ""
             THEN fail(Err("pairing failed: ", 0, 0, reply.detail))
             ELSE fail(Err("pairing failed with status", reply.status, 0, ""))
        ELSE IF ~reply.parses
        THEN fail(Err("failed to parse pair response", 0, 0, ""))
        ELSE [result |-> reply, err |-> NilErr, sent |-> sent]

\* A log line with a PIN argument: who wrote it and the characters printed
\* for the argument.
LogLine(by, shown) == [by |-> by, shown |-> shown]

\* What a client call hands back, with the PIN lines it logged.
Logging(res, lines) == [result |-> res.result, err |-> res.err, sent |-> res.sent, logged |-> lines]

\* firetv.Client.StartPairing: PairRequest{Host: host}; its log line names
\* the host alone.
StartPairing(host, reply) == Logging(sendPairRequest(host, <<>>, reply), <<>>)

FinishPairingOnceStarted(host, pin, reply) ==
    LET served == {earlier[i] : i \in 1..Len(earlier)}
                  \cup {[handler |-> handler, upstream |-> upstream, answers |-> answers,
                         payload |-> payload]}
        started == {e.upstream[1].host : e \in {x \in served : /\ x.handler = "pair"
                                                                /\ Len(x.upstream) = 1
                                                                /\ ~x.upstream[1].hasPin}}
    IN  IF host \in started
        THEN Logging(sendPairRequest(host, pin, reply), <<LogLine("FinishPairing", pin)>>)
        ELSE Logging([result |-> reply, err |-> Err("pairing was not started", 0, 0, ""), sent |-> <<>>],
                     <<LogLine("FinishPairing", pin)>>)

\* firetv.Client.FinishPairing: PairRequest{Host: host, PIN: pin}, after
\* log.Printf("... (PIN: %s)...", host, pin).
FinishPairing(host, pin, reply) ==
    Logging(sendPairRequest(host, pin, reply), <<LogLine("FinishPairing", pin)>>)

\* handlers.sendFireTVError
sendFireTVError(statusCode, message) ==
    Outcome(JsonResp(statusCode, FALSE, message), [t |-> "firetv"], <<>>, <<>>)

\* json.Decoder.Decode into FireTVPairRequest: pin, when present, must be
\* a string or null (null leaves the field empty).
PairDecodes(body) == ~body.malformed /\ body.pin.t \in {"absent", "null", "str"}

\* FireTVPairRequest.PIN after decoding.
DecodedPIN(body) == IF body.pin.t = "str" THEN body.pin.s ELSE <<>>

IsStartPhaseShortPIN(pin) == Len(pin) < 2

\* req.PIN == "": step 1 of the pairing flow.
IsStartPhase(pin) == pin = <<>>

PairCall(op, host, pin, res) == [op |-> op, host |-> host, pin |-> pin, err |-> res.err]

\* handlers.maskPIN
maskPIN(pin) ==
    IF pin = <<>> THEN <<"(", "n", "o", "n", "e", ")">>
    ELSE IF Len(pin) <= 2 THEN pin \o <<"*", "*", "*", "*">>
    ELSE SubSeq(pin, 1, 2) \o <<"*", "*", "*", "*">>

\* handlers.HandleFireTVPair
FireTVPair(r, reply) ==
    IF r.method # "POST"
    THEN Outcome(TextResp(StatusMethodNotAllowed, "Method not allowed"), NoPayload, <<>>, <<>>)
    ELSE IF ~PairDecodes(r.body)
    THEN Outcome(TextResp(StatusBadRequest, "Invalid request body"), NoPayload, <<>>, <<>>)
    ELSE IF r.body.host = ""
    THEN sendFireTVError(StatusBadRequest, Msg("host is required"))
    ELSE LET pin == DecodedPIN(r.body)
             start == IsStartPhase(pin)
             res == IF start THEN StartPairing(r.body.host, reply)
                    ELSE FinishPairing(r.body.host, pin, reply)
             call == IF start THEN PairCall("StartPairing", r.body.host, <<>>, res)
                     ELSE PairCall("FinishPairing", r.body.host, pin, res)
             lines == <<LogLine("HandleFireTVPair", maskPIN(pin))>> \o res.logged
         IN IF res.err # NilErr
            THEN [sendFireTVError(StatusBadRequest, res.err) EXCEPT
                      !.calls = <<call>>, !.upstream = res.sent, !.answers = <<reply>>,
                      !.logged = lines]
            ELSE [Outcome(JsonResp(StatusOK, res.result.success, Msg(res.result.message)),
                          [t |-> "pair", deviceName |-> res.result.deviceName,
                           awaitingPin |-> res.result.awaitingPin],
                          <<call>>, res.sent)
                      EXCEPT !.answers = <<reply>>, !.logged = lines]

PairRequests ==
    {[method |-> m, body |-> [malformed |-> FALSE, host |-> h, pin |-> p]] :
        m \in Methods, h \in Hosts, p \in PinFields}
    \cup {[method |-> m, body |-> [malformed |-> TRUE, host |-> "", pin |-> [t |-> "absent", s |-> <<>>]]] :
        m \in Methods}

(***************************************************************************)
(* HandleFireTVDiscover                                                    *)
(***************************************************************************)
\* firetv.DiscoveredDevice
DiscoveredDevice(name, host) == [name |-> name, host |-> host, port |-> 6466]

\* An answer to GET /discover; listed says whether the body has a devices
\* array (without one DiscoverResponse.Devices stays nil).
DiscoverReply(transport, status, parses, detail, success, listed, devices) ==
    [transport |-> transport, status |-> status, parses |-> parses, detail |-> detail,
     success |-> success, message |-> "discover message", listed |-> listed, devices |-> devices]
DiscoverReplies ==
    {DiscoverReply(TRUE, 0, FALSE, "", FALSE, FALSE, <<>>),
     DiscoverReply(FALSE, StatusInternalServerError, TRUE, "Scan failed", FALSE, FALSE, <<>>),
     DiscoverReply(FALSE, StatusInternalServerError, TRUE, "", FALSE, FALSE, <<>>),
     DiscoverReply(FALSE, StatusInternalServerError, FALSE, "", FALSE, FALSE, <<>>),
     DiscoverReply(FALSE, StatusOK, FALSE, "", FALSE, FALSE, <<>>),
     DiscoverReply(FALSE, StatusOK, TRUE, "", FALSE, FALSE, <<>>),
     DiscoverReply(FALSE, StatusOK, TRUE, "", TRUE, TRUE, <<>>),
     DiscoverReply(FALSE, StatusOK, TRUE, "", TRUE, TRUE, <<DiscoveredDevice("Living Room", "10.0.0.5")>>)}

DiscoverSent == [api |-> "firetv", method |-> "GET", endpoint |-> "/discover"]

\* firetv.Client.Discover
Discover(reply) ==
    LET sent == <<DiscoverSent>>
        fail(e) == [result |-> reply, err |-> e, sent |-> sent]
    IN  IF reply.transport
        THEN fail(Err("failed to reach Fire TV service", 0, 0, ""))
        ELSE IF reply.status # StatusOK
        THEN IF reply.parses /\ reply.detail # ""
             THEN fail(Err("discovery failed: ", 0, 0, reply.detail))
             ELSE fail(Err("discovery failed with status", reply.status, 0, ""))
        ELSE IF ~reply.parses
        THEN fail(Err("failed to parse discovery response", 0, 0, ""))
        ELSE [result |-> reply, err |-> NilErr, sent |-> sent]

\* handlers.HandleFireTVDiscover
FireTVDiscover(r, reply) ==
    IF r.method # "GET"
    THEN Outcome(TextResp(StatusMethodNotAllowed, "Method not allowed"), NoPayload, <<>>, <<>>)
    ELSE LET res == Discover(reply)
             call == [op |-> "Discover", err |-> res.err]
         IN IF res.err # NilErr
            THEN [sendFireTVError(StatusInternalServerError, res.err) EXCEPT
                      !.calls = <<call>>, !.upstream = res.sent, !.answers = <<reply>>]
            ELSE Answered(Outcome(JsonResp(StatusOK, res.result.success, Msg(res.result.message)),
                                  [t |-> "discover",
                                   encoding |-> IF res.result.listed THEN "array" ELSE "null",
                                   devices |-> res.result.devices],
                                  <<call>>, res.sent),
                          <<reply>>)

(***************************************************************************)
(* HandleFireTVCommand                                                     *)
(***************************************************************************)
CommandReply(transport, status, parses, detail, success) ==
    [transport |-> transport, status |-> status, parses |-> parses, detail |-> detail,
     success |-> success, message |-> "command message", command |-> "echoed command"]
CommandReplies ==
    {CommandReply(TRUE, 0, FALSE, "", FALSE),
     CommandReply(FALSE, StatusBadRequest, TRUE, "Device offline", FALSE),
     CommandReply(FALSE, StatusInternalServerError, TRUE, "", FALSE),
     CommandReply(FALSE, StatusInternalServerError, FALSE, "", FALSE),
     CommandReply(FALSE, StatusOK, FALSE, "", FALSE),
     CommandReply(FALSE, StatusOK, TRUE, "", TRUE),
     CommandReply(FALSE, StatusOK, TRUE, "", FALSE)}

\* The JSON of a firetv.CommandRequest: text and app_package are omitempty.
CommandSent(host, command, text, appPackage) ==
    [api |-> "firetv", method |-> "POST", endpoint |-> "/command", host |-> host,
     command |-> command, hasText |-> text # "", text |-> text,
     hasAppPackage |-> appPackage # "", appPackage |-> appPackage]

\* firetv.Client.SendCommand
SendCommand(host, command, text, appPackage, reply) ==
    LET sent == <<CommandSent(host, command, text, appPackage)>>
        fail(e) == [result |-> reply, err |-> e, sent |-> sent]
    IN  IF reply.transport
        THEN fail(Err("failed to reach Fire TV service", 0, 0, ""))
        ELSE IF reply.status # StatusOK
        THEN IF reply.parses /\ reply.detail # ""
             THEN fail(Err("command failed: ", 0, 0, reply.detail))
             ELSE fail(Err("command failed with status", reply.status, 0, ""))
        ELSE IF ~reply.parses
        THEN fail(Err("failed to parse command response", 0, 0, ""))
        ELSE [result |-> reply, err |-> NilErr, sent |-> sent]

\* handlers.HandleFireTVCommand
FireTVCommand(r, reply) ==
    IF r.method # "POST"
    THEN Outcome(TextResp(StatusMethodNotAllowed, "Method not allowed"), NoPayload, <<>>, <<>>)
    ELSE IF r.body.malformed
    THEN Outcome(TextResp(StatusBadRequest, "Invalid request body"), NoPayload, <<>>, <<>>)
    ELSE IF r.body.host = ""
    THEN sendFireTVError(StatusBadRequest, Msg("host is required"))
    ELSE IF r.body.command = ""
    THEN sendFireTVError(StatusBadRequest, Msg("command is required"))
    ELSE LET b == r.body
             res == SendCommand(b.host, b.command, b.text, b.appPackage, reply)
             call == [op |-> "SendCommand", host |-> b.host, command |-> b.command,
                      text |-> b.text, appPackage |-> b.appPackage, err |-> res.err]
         IN IF res.err # NilErr
            THEN [sendFireTVError(StatusBadRequest, res.err) EXCEPT
                      !.calls = <<call>>, !.upstream = res.sent, !.answers = <<reply>>]
            ELSE Answered(Outcome(JsonResp(StatusOK, res.result.success, Msg(res.result.message)),
                                  [t |-> "command", command |-> res.result.command],
                                  <<call>>, res.sent),
                          <<reply>>)

RemoteCommands == {"", "home", "text_input", "launch_app"}
CommandBody(malformed, host, command, text, appPackage) ==
    [malformed |-> malformed, host |-> host, command |-> command, text |-> text,
     appPackage |-> appPackage]
CommandRequests ==
    {[method |-> m, body |-> CommandBody(FALSE, h, c, t, a)] :
        m \in Methods, h \in Hosts, c \in RemoteCommands, t \in {"", "Netflix"},
        a \in {"", "com.netflix.ninja"}}
    \cup {[method |-> m, body |-> CommandBody(TRUE, "", "", "", "")] : m \in Methods}

(***************************************************************************)
(* The camera bridge client and HandleGetCameraStream                      *)
(***************************************************************************)
\* Strings that are cut are sequences of characters.
DefaultBridgeURL ==
    <<"h", "t", "t", "p", ":", "/", "/", "l", "o", "c", "a", "l", "h", "o", "s", "t",
      ":", "5", "0", "5", "0">>

\* strings.Index: the offset of the first occurrence of sub in s, or -1.
Index(s, sub) ==
    LET hits == {i \in 0..(Len(s) - Len(sub)) : SubSeq(s, i + 1, i + Len(sub)) = sub}
    IN  IF hits = {} THEN -1 ELSE CHOOSE i \in hits : \A j \in hits : i <= j

\* camera.extractHost
extractHost(rawURL) ==
    LET scheme == Index(rawURL, <<":", "/", "/">>)
        h1 == IF scheme # -1 THEN SubSeq(rawURL, scheme + 4, Len(rawURL)) ELSE rawURL
        port == Index(h1, <<":">>)
        h2 == IF port # -1 THEN SubSeq(h1, 1, port) ELSE h1
        path == Index(h2, <<"/">>)
    IN  IF path # -1 THEN SubSeq(h2, 1, path) ELSE h2

\* strings.TrimRight(s, "/")
RECURSIVE TrimRightSlash(_)
TrimRightSlash(s) ==
    IF s # <<>> /\ s[Len(s)] = "/" THEN TrimRightSlash(SubSeq(s, 1, Len(s) - 1)) ELSE s

\* camera.NewClient: the bridge URL the client keeps.
NewClient(rawURL) == TrimRightSlash(IF rawURL = <<>> THEN DefaultBridgeURL ELSE rawURL)

\* Bridge addresses an installation can configure in WYZE_BRIDGE_URL: a
\* scheme or none, a host (a name, an IPv4 address, an IPv6 literal), a
\* port or none, a path or none.
BridgeAddress(scheme, host, port, path) ==
    [scheme |-> scheme, host |-> host, port |-> port, path |-> path]
SchemeHTTP == <<"h", "t", "t", "p", ":", "/", "/">>
Port5050 == <<":", "5", "0", "5", "0">>
BridgeAddresses ==
    {BridgeAddress(SchemeHTTP, <<"l", "o", "c", "a", "l", "h", "o", "s", "t">>, Port5050, <<>>),
     BridgeAddress(SchemeHTTP, <<"1", "0", ".", "0", ".", "0", ".", "5">>, Port5050, <<"/">>),
     BridgeAddress(<<>>, <<"n", "a", "s">>, <<>>, <<"/", "u", "i">>),
     BridgeAddress(SchemeHTTP, <<"[", ":", ":", "1", "]">>, Port5050, <<>>)}
URLOf(a) == a.scheme \o a.host \o a.port \o a.path

\* The values WYZE_BRIDGE_URL can hold; getEnv never hands on the empty
\* string, so the unset variable is the default URL.
ConfiguredBridgeURLs == {URLOf(a) : a \in BridgeAddresses}

\* Fields of a raw bridge entry.
FAbsent == [t |-> "absent", s |-> "", b |-> FALSE]
FStr(s) == [t |-> "str", s |-> s, b |-> FALSE]
FBool(b) == [t |-> "bool", s |-> "", b |-> b]
FNum == [t |-> "num", s |-> "", b |-> FALSE]

\* A raw entry: parses says whether the bytes are a JSON object.
RawEntry(parses, nameUri, nickname, modelName, productModel, connected, enabled) ==
    [parses |-> parses, name_uri |-> nameUri, nickname |-> nickname, model_name |-> modelName,
     product_model |-> productModel, connected |-> connected, enabled |-> enabled]
UnparsedEntry == RawEntry(FALSE, FAbsent, FAbsent, FAbsent, FAbsent, FAbsent, FAbsent)
FlagFields == {FAbsent, FBool(TRUE), FBool(FALSE), FStr("true")}
RawEntries ==
    {UnparsedEntry}
    \cup {RawEntry(TRUE, u, n, m, pm, c, e) :
            u \in {FAbsent, FStr("front-door")},
            n \in {FAbsent, FStr("Front Door"), FNum},
            m \in {FAbsent, FStr("Wyze Cam v3")},
            pm \in {FAbsent, FStr("WYZE_CAKP2JFUS")},
            c \in FlagFields, e \in FlagFields}

\* json.Unmarshal into a string field of BridgeCameraInfo: a value of
\* another type leaves the zero value.
StringField(raw, key) == IF raw.parses /\ raw[key].t = "str" THEN raw[key].s ELSE ""

\* json.Unmarshal into a bool field of BridgeCameraInfo.
BoolField(raw, key) == raw.parses /\ raw[key].t = "bool" /\ raw[key].b

\* generic[key].(string) and generic[key].(bool) on the map form of the entry.
GenericIsString(raw, key) == raw.parses /\ raw[key].t = "str"
GenericIsBool(raw, key) == raw.parses /\ raw[key].t = "bool"

DeriveStatusEither(connected, enabled) == IF connected \/ enabled THEN "online" ELSE "offline"

\* status := "offline"; if connected && enabled { status = "online" }
DeriveStatus(connected, enabled) == IF connected /\ enabled THEN "online" ELSE "offline"

parseCameraEntryProductFirst(nameURI, rawData, bridgeHost) ==
    LET nickname == StringField(rawData, "nickname")
        m1 == StringField(rawData, "product_model")
        m2 == IF m1 = "" THEN StringField(rawData, "model_name") ELSE m1
        u == StringField(rawData, "name_uri")
        uri == IF u = "" THEN nameURI ELSE u
        connected == BoolField(rawData, "connected")
        enabled == BoolField(rawData, "enabled")
        streams == [hls |-> <<"http://", bridgeHost, ":", "8888", "/", uri, "/stream.m3u8">>,
                    rtsp |-> <<"rtsp://", bridgeHost, ":", "8554", "/", uri>>,
                    webrtc |-> <<"http://", bridgeHost, ":", "8889", "/", uri, "/">>]
    IN  [name |-> IF nickname = "" THEN nameURI ELSE nickname, nameUri |-> uri,
         model |-> IF m2 = "" THEN "Wyze Camera" ELSE m2,
         status |-> DeriveStatus(connected, enabled), enabled |-> enabled,
         streamUrl |-> streams.hls, streams |-> streams]

\* camera.Client.parseCameraEntry
parseCameraEntry(nameURI, rawData, bridgeHost) ==
    LET nickname == StringField(rawData, "nickname")
        displayName == IF nickname = "" THEN nameURI ELSE nickname
        m1 == StringField(rawData, "model_name")
        m2 == IF m1 = "" THEN StringField(rawData, "product_model") ELSE m1
        model == IF m2 # "" THEN m2
                 ELSE IF GenericIsString(rawData, "model_name") /\ rawData.model_name.s # ""
                 THEN rawData.model_name.s
                 ELSE IF GenericIsString(rawData, "product_model") /\ rawData.product_model.s # ""
                 THEN rawData.product_model.s
                 ELSE "Wyze Camera"
        u == StringField(rawData, "name_uri")
        uri == IF u = "" THEN nameURI ELSE u
        c0 == BoolField(rawData, "connected")
        e0 == BoolField(rawData, "enabled")
        connected == IF ~c0 /\ GenericIsBool(rawData, "connected") THEN rawData.connected.b ELSE c0
        enabled == IF ~e0 /\ GenericIsBool(rawData, "enabled") THEN rawData.enabled.b ELSE e0
        streams == [hls |-> <<"http://", bridgeHost, ":", "8888", "/", uri, "/stream.m3u8">>,
                    rtsp |-> <<"rtsp://", bridgeHost, ":", "8554", "/", uri>>,
                    webrtc |-> <<"http://", bridgeHost, ":", "8889", "/", uri, "/">>]
    IN  [name |-> displayName, nameUri |-> uri, model |-> model,
         status |-> DeriveStatus(connected, enabled), enabled |-> enabled,
         streamUrl |-> streams.hls, streams |-> streams]

CameraReply(transport, status, entry) == [transport |-> transport, status |-> status, entry |-> entry]
CameraReplies ==
    {CameraReply(TRUE, 0, UnparsedEntry),
     CameraReply(FALSE, StatusNotFound, UnparsedEntry),
     CameraReply(FALSE, StatusInternalServerError, UnparsedEntry)}
    \cup {CameraReply(FALSE, StatusOK, e) : e \in RawEntries}

CameraSent(bridge, nameURI) ==
    [api |-> "bridge", method |-> "GET", base |-> bridge, path |-> <<"/api/", nameURI>>]

\* camera.Client.GetCamera
GetCamera(bridge, nameURI, reply) ==
    LET sent == <<CameraSent(bridge, nameURI)>>
        fail(e) == [camera |-> [status |-> "none"], err |-> e, sent |-> sent]
    IN  IF reply.transport
        THEN fail(Err("failed to reach Wyze Bridge", 0, 0, ""))
        ELSE IF reply.status = StatusNotFound
        THEN fail(Err("camera not found", 0, 0, nameURI))
        ELSE IF reply.status # StatusOK
        THEN fail(Err("bridge returned status", reply.status, 0, nameURI))
        ELSE [camera |-> parseCameraEntry(nameURI, reply.entry, extractHost(bridge)),
              err |-> NilErr, sent |-> sent]

\* handlers.sendCameraError
sendCameraError(statusCode, message) ==
    Outcome(JsonResp(statusCode, FALSE, message), [t |-> "cameras", cameras |-> <<>>], <<>>, <<>>)

GetCameraStreamNameFirst(bridge, r, reply) ==
    IF r.name = ""
    THEN sendCameraError(StatusBadRequest, Msg("Missing required 'name' query parameter"))
    ELSE IF r.method # "GET"
    THEN Outcome(TextResp(StatusMethodNotAllowed, "Method not allowed"), NoPayload, <<>>, <<>>)
    ELSE LET res == GetCamera(bridge, r.name, reply)
             call == [op |-> "GetCamera", name |-> r.name, err |-> res.err]
         IN IF res.err # NilErr
            THEN [sendCameraError(StatusNotFound, [res.err EXCEPT !.ctx = "Camera not found: "]) EXCEPT
                      !.calls = <<call>>, !.upstream = res.sent, !.answers = <<reply>>]
            ELSE Answered(Outcome(JsonResp(StatusOK, TRUE, Msg("Camera is online and streaming")),
                                  [t |-> "stream", camera |-> res.camera],
                                  <<call>>, res.sent),
                          <<reply>>)

\* handlers.HandleGetCameraStream
GetCameraStream(bridge, r, reply) ==
    IF r.method # "GET"
    THEN Outcome(TextResp(StatusMethodNotAllowed, "Method not allowed"), NoPayload, <<>>, <<>>)
    ELSE IF r.name = ""
    THEN sendCameraError(StatusBadRequest, Msg("Missing required 'name' query parameter"))
    ELSE LET res == GetCamera(bridge, r.name, reply)
             call == [op |-> "GetCamera", name |-> r.name, err |-> res.err]
         IN IF res.err # NilErr
            THEN [sendCameraError(StatusNotFound, [res.err EXCEPT !.ctx = "Camera not found: "]) EXCEPT
                      !.calls = <<call>>, !.upstream = res.sent, !.answers = <<reply>>]
            ELSE Answered(Outcome(JsonResp(StatusOK, TRUE,
                                           Msg(IF res.camera.status = "offline"
                                               THEN "Camera is offline - stream may not be available"
                                               ELSE "Camera is online and streaming")),
                                  [t |-> "stream", camera |-> res.camera],
                                  <<call>>, res.sent),
                          <<reply>>)

CameraNames == {"", "front-door", "garage"}
StreamRequests == {[method |-> m, name |-> n] : m \in Methods, n \in CameraNames}

(***************************************************************************)
(* HandleGetCameras                                                        *)
(***************************************************************************)
\* The entries a listing holds: one that does not parse, one without any
\* known field, one complete and online.
ListedEntries ==
    {UnparsedEntry,
     RawEntry(TRUE, FAbsent, FAbsent, FAbsent, FAbsent, FAbsent, FAbsent),
     RawEntry(TRUE, FStr("front-door"), FStr("Front Door"), FStr("Wyze Cam v3"),
              FStr("WYZE_CAKP2JFUS"), FBool(TRUE), FBool(TRUE))}
ListedNames == {"front-door", "garage"}

\* An answer to GET /api/: the body is a JSON object keyed by camera name,
\* or text.
ListReply(transport, status, parses, entries) ==
    [transport |-> transport, status |-> status, parses |-> parses, entries |-> entries]
ListReplies ==
    {ListReply(TRUE, 0, FALSE, <<>>),
     ListReply(FALSE, StatusInternalServerError, FALSE, <<>>),
     ListReply(FALSE, StatusOK, FALSE, <<>>)}
    \cup {ListReply(FALSE, StatusOK, TRUE, m) :
             m \in UNION {[K -> ListedEntries] : K \in SUBSET ListedNames}}

\* The orders in which range can visit the keys of a map.
Orders(K) == {o \in SeqsUpTo(K, Cardinality(K)) :
                 Len(o) = Cardinality(K) /\ {o[i] : i \in 1..Len(o)} = K}

ListSent(bridge) == [api |-> "bridge", method |-> "GET", base |-> bridge, path |-> <<"/api/">>]

\* camera.Client.GetCameras; order is the order range visits the map in.
GetCameras(bridge, reply, order) ==
    LET sent == <<ListSent(bridge)>>
        fail(e) == [cameras |-> <<>>, err |-> e, sent |-> sent]
    IN  IF reply.transport
        THEN fail(Err("failed to reach Wyze Bridge at", 0, 0, ""))
        ELSE IF reply.status # StatusOK
        THEN fail(Err("bridge returned status", reply.status, 0, "raw body"))
        ELSE IF ~reply.parses
        THEN fail(Err("failed to parse bridge response", 0, 0, ""))
        ELSE [cameras |-> [i \in 1..Len(order) |->
                              parseCameraEntry(order[i], reply.entries[order[i]], extractHost(bridge))],
              err |-> NilErr, sent |-> sent]

\* handlers.formatCameraCountMessage
formatCameraCountMessage(count) ==
    IF count = 0
    THEN Msg("No cameras found. Make sure Wyze Bridge is running and cameras are connected.")
    ELSE IF count = 1 THEN Msg("Found 1 camera")
    ELSE Err("Found %d cameras", 0, count, "")

\* handlers.HandleGetCameras; a nil slice is replaced by an empty one
\* before it is encoded.
GetCamerasHandler(bridge, r, reply, order) ==
    IF r.method # "GET"
    THEN Outcome(TextResp(StatusMethodNotAllowed, "Method not allowed"), NoPayload, <<>>, <<>>)
    ELSE LET res == GetCameras(bridge, reply, order)
             call == [op |-> "GetCameras", err |-> res.err]
         IN IF res.err # NilErr
            THEN [sendCameraError(StatusInternalServerError,
                                  [res.err EXCEPT !.ctx = "Failed to fetch cameras: "]) EXCEPT
                      !.calls = <<call>>, !.upstream = res.sent, !.answers = <<reply>>]
            ELSE Answered(Outcome(JsonResp(StatusOK, TRUE, formatCameraCountMessage(Len(res.cameras))),
                                  [t |-> "cameras", encoding |-> "array", cameras |-> res.cameras],
                                  <<call>>, res.sent),
                          <<reply>>)

(***************************************************************************)
(* HandleLightbulbToggle and the health check                              *)
(***************************************************************************)
\* The isOn field of the body: left out, a boolean, or of another type.
ToggleBodies ==
    {[malformed |-> TRUE, isOn |-> JAbsent]}
    \cup {[malformed |-> FALSE, isOn |-> v] : v \in {JAbsent, JNull, JStr, JBool(TRUE), JBool(FALSE)}}
ToggleRequests == {[method |-> m, body |-> b] : m \in Methods, b \in ToggleBodies}

\* json.Decoder.Decode into LightbulbToggleRequest
ToggleDecodes(body) == ~body.malformed /\ body.isOn.t \in {"absent", "null", "bool"}

\* handlers.HandleLightbulbToggle
LightbulbToggle(r) ==
    IF r.method # "POST"
    THEN Outcome(TextResp(StatusMethodNotAllowed, "Method not allowed"), NoPayload, <<>>, <<>>)
    ELSE IF ~ToggleDecodes(r.body)
    THEN Outcome(TextResp(StatusBadRequest, "Invalid request body"), NoPayload, <<>>, <<>>)
    ELSE Outcome(JsonResp(StatusOK, TRUE, Msg("Lightbulb state updated successfully")),
                 [t |-> "toggle", isOn |-> r.body.isOn.t = "bool" /\ r.body.isOn.b], <<>>, <<>>)

\* What an upstream would answer to a health probe at the time of the request.
ProbeReplies == {[transport |-> TRUE, status |-> 0], [transport |-> FALSE, status |-> StatusOK],
                 [transport |-> FALSE, status |-> StatusInternalServerError]}

HealthProbing(r, probe) ==
    IF probe.transport \/ probe.status # StatusOK
    THEN Outcome(BareJsonResp(StatusInternalServerError),
                 [t |-> "health", status |-> "unhealthy", service |-> "artemis"], <<>>, <<>>)
    ELSE Outcome(BareJsonResp(StatusOK), [t |-> "health", status |-> "healthy", service |-> "artemis"],
                 <<>>, <<>>)

\* The health handler of main: it looks neither at the method nor at any
\* upstream (probe), and writes {"status":"healthy","service":"artemis"}.
Health(r, probe) ==
    Outcome(BareJsonResp(StatusOK), [t |-> "health", status |-> "healthy", service |-> "artemis"],
            <<>>, <<>>)

(***************************************************************************)
(* Requests handled at the same time.  net/http runs every request in its  *)
(* own goroutine; a handler's request, upstream answers and response are   *)
(* locals of that goroutine, and the clients are shared.  A request takes  *)
(* one step per upstream exchange, so the exchanges of different requests  *)
(* interleave.                                                             *)
(***************************************************************************)
Slots == 1..MaxInFlight
IdleSlot ==
    [phase |-> "idle", handler |-> "none", req |-> [method |-> "none"], replies |-> <<>>,
     out |-> Outcome(TextResp(0, ""), NoPayload, <<>>, <<>>)]

\* The requests and upstream answers handled at the same time.
OneDevice == <<Device("AA:BB:CC", "H6159", "Lamp", <<"turn", "brightness", "color">>)>>
TurnOnBody(i) == ControlBody(FALSE, "AA:BB:CC", "H6159", "turn", JBool(TRUE), JNum(2 * i))
ParallelRequests ==
    {[handler |-> "control", req |-> [method |-> "POST", body |-> TurnOnBody(i)]] : i \in 0..1}
    \cup {[handler |-> "devices", req |-> [method |-> "GET"]],
          [handler |-> "state", req |-> [method |-> "GET", deviceId |-> "AA:BB:CC", model |-> "H6159",
                                         apiKeyIndex |-> [t |-> "int", k |-> 0]]],
          [handler |-> "pair", req |-> [method |-> "POST",
                                        body |-> [malformed |-> FALSE, host |-> "10.0.0.5",
                                                  pin |-> [t |-> "absent", s |-> <<>>]]]],
          [handler |-> "stream", req |-> [method |-> "GET", name |-> "front-door"]],
          [handler |-> "toggle", req |-> [method |-> "POST",
                                          body |-> [malformed |-> FALSE, isOn |-> JBool(TRUE)]]]}

\* The answer of an upstream that cannot be reached.
NoAnswer(h) ==
    CASE h = "control" -> GoveeReply(TRUE, 0, FALSE, 0, "")
      [] h = "devices" -> DevicesReply(TRUE, 0, FALSE, 0, "", <<>>)
      [] h = "state" -> StateReply(TRUE, 0, FALSE, 0, "", <<>>)
      [] h = "pair" -> PairReply(TRUE, 0, FALSE, "", FALSE, FALSE)
      [] OTHER -> CameraReply(TRUE, 0, UnparsedEntry)
ParallelReplies(h) ==
    {NoAnswer(h)} \cup
    (CASE h = "control" -> {GoveeReply(FALSE, StatusOK, TRUE, StatusOK, "Success")}
       [] h = "devices" -> {DevicesReply(FALSE, StatusOK, TRUE, StatusOK, "Success", OneDevice)}
       [] h = "state" -> {StateReply(FALSE, StatusOK, TRUE, StatusOK, "Success",
                                     <<[powerState |-> PStr("on")]>>)}
       [] h = "pair" -> {PairReply(FALSE, StatusOK, TRUE, "", TRUE, TRUE)}
       [] OTHER -> {CameraReply(FALSE, StatusOK,
                                RawEntry(TRUE, FStr("front-door"), FStr("Front Door"), FStr("Wyze Cam v3"),
                                         FStr("WYZE_CAKP2JFUS"), FBool(TRUE), FBool(TRUE)))})

\* The i-th answer a handler reads; one it never waits for is of no account.
ReplyAt(h, replies, i) == IF i <= Len(replies) THEN replies[i] ELSE NoAnswer(h)

\* The handler of a route run on a request and the answers to its exchanges.
Handle(h, n, bridge, r, replies) ==
    CASE h = "control" -> ControlDevice(n, r, ReplyAt(h, replies, 1))
      [] h = "devices" -> GetDevicesHandler(n, r, [i \in 0..(n - 1) |-> ReplyAt(h, replies, i + 1)])
      [] h = "state" -> GetDeviceStateHandler(n, r, ReplyAt(h, replies, 1))
      [] h = "pair" -> FireTVPair(r, ReplyAt(h, replies, 1))
      [] h = "stream" -> GetCameraStream(bridge, r, ReplyAt(h, replies, 1))
      [] OTHER -> LightbulbToggle(r)

\* The upstream exchanges the handler makes for the request.
Exchanges(h, n, bridge, r) == Len(Handle(h, n, bridge, r, <<>>).upstream)

SharedReplies(slots, k) ==
    LET same == {j \in DOMAIN slots : /\ j # k
                                      /\ slots[j].handler = slots[k].handler
                                      /\ Len(slots[j].replies) = Len(slots[k].replies)}
    IN  IF same = {} THEN slots[k].replies ELSE slots[CHOOSE j \in same : TRUE].replies

\* The answers a handler works on are the ones its own calls read: resp
\* and body are locals of each client method.
OwnReplies(slots, k) == slots[k].replies

\* The server accepts a request while others are being handled.
Accept(k) ==
    /\ inflight[k].phase = "idle"
    /\ \E p \in ParallelRequests :
          inflight' = [inflight EXCEPT ![k] = [IdleSlot EXCEPT !.phase = "running",
                                                               !.handler = p.handler, !.req = p.req]]
    /\ UNCHANGED <<goveeClients, bridgeURL, pc, handler, req, resp, payload, calls, upstream, answers,
                   logged, earlier>>

\* The handler of slot k sends its next upstream request and reads the answer.
Exchange(k) ==
    /\ inflight[k].phase = "running"
    /\ Len(inflight[k].replies) < Exchanges(inflight[k].handler, goveeClients, bridgeURL, inflight[k].req)
    /\ \E reply \in ParallelReplies(inflight[k].handler) :
          inflight' = [inflight EXCEPT ![k].replies = Append(@, reply)]
    /\ UNCHANGED <<goveeClients, bridgeURL, pc, handler, req, resp, payload, calls, upstream, answers,
                   logged, earlier>>

\* The handler of slot k writes its response.
Complete(k) ==
    /\ inflight[k].phase = "running"
    /\ Len(inflight[k].replies) = Exchanges(inflight[k].handler, goveeClients, bridgeURL, inflight[k].req)
    /\ inflight' = [inflight EXCEPT ![k].phase = "done",
                                    ![k].out = Handle(inflight[k].handler, goveeClients, bridgeURL,
                                                      inflight[k].req, OwnReplies(inflight, k))]
    /\ UNCHANGED <<goveeClients, bridgeURL, pc, handler, req, resp, payload, calls, upstream, answers,
                   logged, earlier>>

\* The goroutine of slot k ends.
Release(k) ==
    /\ inflight[k].phase = "done"
    /\ inflight' = [inflight EXCEPT ![k] = IdleSlot]
    /\ UNCHANGED <<goveeClients, bridgeURL, pc, handler, req, resp, payload, calls, upstream, answers,
                   logged, earlier>>

\* The handler ran: what it wrote is the state of the last request.
Write(h, r, out) ==
    /\ pc' = "done"
    /\ handler' = h
    /\ req' = r
    /\ resp' = out.resp
    /\ payload' = out.payload
    /\ calls' = out.calls
    /\ upstream' = out.upstream
    /\ answers' = out.answers
    /\ logged' = out.logged
    /\ UNCHANGED <<goveeClients, bridgeURL, inflight>>

Respond(h, r, out) == Write(h, r, out) /\ UNCHANGED earlier

HandleControlDevice ==
    /\ pc = "idle"
    /\ \E r \in ControlRequests, reply \in ControlReplies :
          Respond("control", r, ControlDevice(goveeClients, r, reply))

HandleGetDevices ==
    /\ pc = "idle"
    /\ \E m \in Methods, replies \in [0..(goveeClients - 1) -> DevicesReplies] :
          Respond("devices", [method |-> m], GetDevicesHandler(goveeClients, [method |-> m], replies))

HandleGetDeviceState ==
    /\ pc = "idle"
    /\ \E r \in StateRequests, reply \in StateReplies :
          Respond("state", r, GetDeviceStateHandler(goveeClients, r, reply))

HandleFireTVPair ==
    /\ pc = "idle"
    /\ \E r \in PairRequests, reply \in PairReplies :
          Respond("pair", r, FireTVPair(r, reply))

HandleGetCameraStream ==
    /\ pc = "idle"
    /\ \E r \in StreamRequests, reply \in CameraReplies :
          Respond("stream", r, GetCameraStream(bridgeURL, r, reply))

HandleFireTVDiscover ==
    /\ pc = "idle"
    /\ \E m \in Methods, reply \in DiscoverReplies :
          Respond("discover", [method |-> m], FireTVDiscover([method |-> m], reply))

HandleFireTVCommand ==
    /\ pc = "idle"
    /\ \E r \in CommandRequests, reply \in CommandReplies :
          Respond("command", r, FireTVCommand(r, reply))

HandleGetCameras ==
    /\ pc = "idle"
    /\ \E m \in Methods, reply \in ListReplies :
          \E order \in Orders(DOMAIN reply.entries) :
              Respond("cameras", [method |-> m], GetCamerasHandler(bridgeURL, [method |-> m], reply, order))

HandleLightbulbToggle ==
    /\ pc = "idle"
    /\ \E r \in ToggleRequests : Respond("toggle", r, LightbulbToggle(r))

HandleHealth ==
    /\ pc = "idle"
    /\ \E m \in Methods, probe \in ProbeReplies :
          Respond("health", [method |-> m], Health([method |-> m], probe))

\* The server takes the next request; nothing of the last one is kept.
NextRequest ==
    /\ pc = "done"
    /\ pc' = "idle"
    /\ handler' = "none"
    /\ req' = [method |-> "none"]
    /\ resp' = TextResp(0, "")
    /\ payload' = NoPayload
    /\ calls' = <<>>
    /\ upstream' = <<>>
    /\ answers' = <<>>
    /\ logged' = <<>>
    /\ UNCHANGED <<goveeClients, bridgeURL, inflight, earlier>>

Init ==
    /\ goveeClients \in 1..MaxClients
    /\ bridgeURL \in {NewClient(u) : u \in ConfiguredBridgeURLs}
    /\ pc = "idle"
    /\ handler = "none"
    /\ req = [method |-> "none"]
    /\ resp = TextResp(0, "")
    /\ payload = NoPayload
    /\ calls = <<>>
    /\ upstream = <<>>
    /\ answers = <<>>
    /\ inflight = [k \in Slots |-> IdleSlot]
    /\ logged = <<>>
    /\ earlier = <<>>

Next ==
    \/ HandleGetDevices
    \/ HandleControlDevice
    \/ HandleGetDeviceState
    \/ HandleFireTVPair
    \/ HandleGetCameraStream
    \/ HandleFireTVDiscover
    \/ HandleFireTVCommand
    \/ HandleGetCameras
    \/ HandleLightbulbToggle
    \/ HandleHealth
    \/ NextRequest

Spec == Init /\ [][Next]_vars

(***************************************************************************)
(* The server over several requests of one route.  A handler is a closure  *)
(* over its client; whatever an earlier request left behind would be in    *)
(* the client or in a package variable.  earlier records the requests      *)
(* served so far, so that an answer can be set against what preceded it.   *)
(***************************************************************************)
\* What is kept of the last request when the next one is taken.
Remembered == [handler |-> handler, upstream |-> upstream, answers |-> answers, payload |-> payload]
TakeNext ==
    /\ pc = "idle" \/ Len(earlier) < MaxEarlier
    /\ earlier' = IF pc = "done" THEN Append(earlier, Remembered) ELSE earlier

\* The pair requests and answers of a pairing flow: both phases, two hosts,
\* the service answering or out of reach.
FlowRequests ==
    {r \in PairRequests : /\ r.method = "POST" /\ ~r.body.malformed /\ r.body.host # ""
                          /\ r.body.pin \in {[t |-> "absent", s |-> <<>>],
                                              [t |-> "str", s |-> <<"1", "2", "1">>]}}
FlowReplies ==
    {PairReply(TRUE, 0, FALSE, "", FALSE, FALSE), PairReply(FALSE, StatusOK, TRUE, "", TRUE, TRUE)}

\* The next pair request, served after the ones in earlier.
NextFireTVPair ==
    /\ TakeNext
    /\ \E r \in FlowRequests, reply \in FlowReplies : Write("pair", r, FireTVPair(r, reply))

\* The bridge answers of successive list queries: unreachable, one camera,
\* two cameras.
RepeatedListReplies ==
    {l \in ListReplies : l.transport \/ (l.parses /\ DOMAIN l.entries # {}
                                          /\ \A k \in DOMAIN l.entries : l.entries[k].parses
                                                                          /\ l.entries[k].nickname = FAbsent)}

\* The next list query, served after the ones in earlier.
NextGetCameras ==
    /\ TakeNext
    /\ \E reply \in RepeatedListReplies :
          \E order \in Orders(DOMAIN reply.entries) :
              Write("cameras", [method |-> "GET"], GetCamerasHandler(bridgeURL, [method |-> "GET"], reply, order))

NextHistory ==
    \/ NextFireTVPair
    \/ NextGetCameras

SpecHistory == Init /\ [][NextHistory]_vars

\* The server with requests handled at the same time.
NextConcurrent ==
    \E k \in Slots :
        \/ Accept(k)
        \/ Exchange(k)
        \/ Complete(k)
        \/ Release(k)

SpecConcurrent == Init /\ [][NextConcurrent]_vars

(***************************************************************************)
(* Properties.                                                             *)
(***************************************************************************)
Served(h) == pc = "done" /\ handler = h

\* C1: a brightness level below 0 or above 100 makes SetBrightness return the
\* out-of-range error without any upstream request; a level in 0..100 makes
\* it send exactly one control request, command "brightness", that level.
C1_BrightnessRange ==
    Served("control") =>
        \A i \in 1..Len(calls) :
            calls[i].op = "SetBrightness" =>
                IF calls[i].level < 0 \/ calls[i].level > 100
                THEN /\ calls[i].err.kind = "brightness must be between 0 and 100"
                     /\ upstream = <<>>
                ELSE /\ Len(upstream) = 1
                     /\ upstream[1].endpoint = "/v1/devices/control"
                     /\ upstream[1].cmd = "brightness"
                     /\ upstream[1].value = CmdInt(calls[i].level)

C1_Witness ==
    /\ Served("control")
    /\ Len(calls) = 1
    /\ calls[1].op = "SetBrightness"
    /\ calls[1].level = -1
    /\ calls[1].err # NilErr
    /\ upstream = <<>>

\* C2: a color with at least one channel outside 0..255 makes SetColor return
\* the out-of-range error without any upstream request, whatever the other
\* two channels are.
C2_ColorRange ==
    Served("control") =>
        \A i \in 1..Len(calls) :
            (/\ calls[i].op = "SetColor"
             /\ \E ch \in {calls[i].r, calls[i].g, calls[i].b} : ch < 0 \/ ch > 255)
            => /\ calls[i].err.kind = "RGB values must be between 0 and 255"
               /\ upstream = <<>>

C2_Witness ==
    /\ Served("control")
    /\ Len(calls) = 1
    /\ calls[1].op = "SetColor"
    /\ calls[1].r = 0 /\ calls[1].g = 255 /\ calls[1].b = 256
    /\ calls[1].err # NilErr
    /\ upstream = <<>>

\* The accounts of the last device listing, and those whose GetDevices failed.
Accounts == 0..(goveeClients - 1)
AccountFailed(i) == calls[i + 1].err # NilErr
\* The items of the response tagged i, as device ids.
TaggedIds(i) ==
    LET IsTagged(d) == d.apiKeyIndex = i
        tagged == SelectSeq(payload.devices, IsTagged)
    IN  [k \in 1..Len(tagged) |-> tagged[k].id]
ReturnedIds(i) ==
    [k \in 1..Len(answers[i + 1].devices) |-> answers[i + 1].devices[k].device]

\* C3: whichever accounts fail, the device listing answers 200 and holds
\* exactly the devices of the accounts that succeeded, each tagged with the
\* index of its account; a failing account contributes nothing.
C3_PartialFailure ==
    (Served("devices") /\ req.method = "GET") =>
        /\ resp.status = 200
        /\ Len(calls) = goveeClients
        /\ \A k \in 1..Len(payload.devices) : payload.devices[k].apiKeyIndex \in Accounts
        /\ \A i \in Accounts :
              TaggedIds(i) = IF AccountFailed(i) THEN <<>> ELSE ReturnedIds(i)

C3_Witness ==
    /\ Served("devices")
    /\ goveeClients = 2
    /\ Len(calls) = 2
    /\ ~AccountFailed(0) /\ AccountFailed(1)
    /\ Len(answers[1].devices) = 2
    /\ resp.status = 200
    /\ Len(payload.devices) = 2
    /\ \A k \in 1..2 : payload.devices[k].apiKeyIndex = 0

\* The merged list the claim describes: account i's devices, then the rest.
RECURSIVE MergedFrom(_)
MergedFrom(i) ==
    IF i >= goveeClients THEN <<>>
    ELSE (IF AccountFailed(i) THEN <<>>
          ELSE [k \in 1..Len(answers[i + 1].devices) |->
                    <<answers[i + 1].devices[k].device, i>>])
         \o MergedFrom(i + 1)

\* C4: the merged list is the concatenation, account 0 first, of each
\* succeeding account's devices in the order that account returned them;
\* nothing is de-duplicated.
C4_MergeOrder ==
    (Served("devices") /\ req.method = "GET") =>
        [k \in 1..Len(payload.devices) |->
            <<payload.devices[k].id, payload.devices[k].apiKeyIndex>>] = MergedFrom(0)

C4_Witness ==
    /\ Served("devices")
    /\ goveeClients = 2
    /\ resp.status = 200
    /\ Len(payload.devices) = 3
    /\ payload.devices[1].id = "DD:EE:FF" /\ payload.devices[1].apiKeyIndex = 0
    /\ payload.devices[2].id = "AA:BB:CC" /\ payload.devices[2].apiKeyIndex = 0
    /\ payload.devices[3].id = "DD:EE:FF" /\ payload.devices[3].apiKeyIndex = 1

\* A pair request that reached the handler's phase selection: POST, a JSON
\* body, a host.
PairWithHost == Served("pair") /\ req.method = "POST" /\ ~req.body.malformed /\ req.body.host # ""

\* C5 as stated: with a non-empty host exactly one pairing operation is
\* invoked, phase 1 iff the payload has no pin field, phase 2 iff a pin field
\* is supplied (read here on payloads whose pin is left out or a string).
C5_PhaseByFieldPresence ==
    (PairWithHost /\ req.body.pin.t \in {"absent", "str"}) =>
        /\ Len(calls) = 1
        /\ calls[1].op = "StartPairing" <=> req.body.pin.t = "absent"
        /\ calls[1].op = "FinishPairing" <=> req.body.pin.t # "absent"

\* C5, amended: a POST pair request whose body decodes (pin left out, null or
\* a string) and names a host invokes exactly one pairing operation: phase 1,
\* no PIN forwarded, iff the pin is left out, null or the empty string;
\* phase 2 with that PIN iff the pin is a non-empty string.
C5_PhaseByEmptyPIN ==
    (PairWithHost /\ req.body.pin.t \in {"absent", "null", "str"}) =>
        /\ Len(calls) = 1
        /\ Len(upstream) = 1
        /\ upstream[1].endpoint = "/pair"
        /\ upstream[1].host = req.body.host
        /\ IF req.body.pin.t = "str" /\ Len(req.body.pin.s) > 0
           THEN /\ calls[1].op = "FinishPairing"
                /\ calls[1].pin = req.body.pin.s
                /\ upstream[1].hasPin
                /\ upstream[1].pin = req.body.pin.s
           ELSE /\ calls[1].op = "StartPairing"
                /\ ~upstream[1].hasPin

C5_Witness ==
    /\ PairWithHost
    /\ req.body.pin.t = "str"
    /\ req.body.pin.s = <<>>
    /\ Len(calls) = 1
    /\ calls[1].op = "StartPairing"

\* A control request that reached the router: POST, a body that decodes.
ControlRouted ==
    /\ Served("control")
    /\ req.method = "POST"
    /\ ~req.body.malformed
    /\ \/ req.body.apiKeyIndex.t = "absent"
       \/ req.body.apiKeyIndex.t = "num" /\ req.body.apiKeyIndex.h % 2 = 0
RoutedIndex == IF req.body.apiKeyIndex.t = "num" THEN req.body.apiKeyIndex.h \div 2 ELSE 0
RoutedIndexInRange == RoutedIndex >= 0 /\ RoutedIndex < goveeClients

KnownCommands == {"turn", "brightness", "color"}
\* The shape each command expects of the value.
ShapeMatches(command, v) ==
    CASE command = "turn" -> v.t = "bool"
      [] command = "brightness" -> v.t = "num"
      [] command = "color" -> v.t = "obj" /\ v.r.t = "num" /\ v.g.t = "num" /\ v.bl.t = "num"
      [] OTHER -> TRUE
InvalidValueMessages ==
    {"Invalid value for 'turn' command - expected boolean",
     "Invalid value for 'brightness' command - expected number",
     "Invalid value for 'color' command - expected object with r, g, b",
     "Color object must have r, g, b numeric fields"}
Rejected400 == resp.status = 400 /\ resp.envelope /\ ~resp.success

\* C6: a value that does not have the shape its command expects is answered
\* 400 with success=false (the invalid-value message once the index is
\* accepted), and no adapter operation is invoked and nothing sent upstream.
C6_ShapeCheckedFirst ==
    (/\ ControlRouted
     /\ req.body.command \in KnownCommands
     /\ ~ShapeMatches(req.body.command, req.body.value))
    => /\ Rejected400
       /\ calls = <<>>
       /\ upstream = <<>>
       /\ RoutedIndexInRange => resp.message.kind \in InvalidValueMessages

C6_Witness ==
    /\ ControlRouted
    /\ RoutedIndexInRange
    /\ req.body.command = "turn"
    /\ req.body.value = JNull
    /\ Rejected400
    /\ calls = <<>>

\* C7: a command that is not exactly "turn", "brightness" or "color" is
\* answered with the unsupported-command error and no adapter operation.
C7_UnknownCommand ==
    (ControlRouted /\ req.body.command \notin KnownCommands)
    => /\ Rejected400
       /\ calls = <<>>
       /\ upstream = <<>>
       /\ RoutedIndexInRange =>
             /\ resp.message.kind = "Unknown command: "
             /\ resp.message.msg = req.body.command

C7_Witness ==
    /\ ControlRouted
    /\ RoutedIndexInRange
    /\ req.body.command = "Turn"
    /\ req.body.value = JBool(TRUE)
    /\ Rejected400
    /\ resp.message.kind = "Unknown command: "

\* C8: a control or state request whose account index is negative or not
\* below the number of clients is answered 400 with the invalid-index
\* message before anything is dispatched, and no client is ever called
\* with an index outside the configured ones.
C8_IndexValidated ==
    /\ (ControlRouted /\ ~RoutedIndexInRange)
       => /\ Rejected400
          /\ resp.message.kind = "Invalid API key index"
          /\ calls = <<>>
          /\ upstream = <<>>
    /\ (/\ Served("state")
        /\ req.method = "GET"
        /\ req.apiKeyIndex.t = "int"
        /\ (req.apiKeyIndex.k < 0 \/ req.apiKeyIndex.k >= goveeClients))
       => /\ resp.status = 400
          /\ calls = <<>>
          /\ upstream = <<>>
          /\ (req.deviceId # "" /\ req.model # "") => resp.message.kind = "Invalid API key index"
    /\ (Served("control") \/ Served("state"))
       => /\ \A i \in 1..Len(calls) : calls[i].client \in 0..(goveeClients - 1)
          /\ \A i \in 1..Len(upstream) : upstream[i].key \in 0..(goveeClients - 1)

C8_Witness ==
    /\ ControlRouted
    /\ RoutedIndex = goveeClients
    /\ req.body.command = "turn"
    /\ req.body.value = JBool(TRUE)
    /\ Rejected400
    /\ calls = <<>>

\* A state query that was answered from the upstream's property maps.
StateAnswered == Served("state") /\ resp.status = 200
Properties == answers[1].properties
HasBoolOnline(prop) == "online" \in DOMAIN prop /\ prop["online"].t = "bool"
HasStringPower(prop) == "powerState" \in DOMAIN prop /\ prop["powerState"].t = "str"

\* C9 as stated: on=true as soon as a boolean "online" property or a string
\* "powerState" property equal to "on" is found in some map; off when
\* neither property appears in any map.
C9_OnWhenFound ==
    StateAnswered =>
        /\ (\E i \in 1..Len(Properties) :
               \/ HasBoolOnline(Properties[i])
               \/ HasStringPower(Properties[i]) /\ Properties[i]["powerState"].s = "on")
           => payload.isOn
        /\ (\A i \in 1..Len(Properties) :
               "online" \notin DOMAIN Properties[i] /\ "powerState" \notin DOMAIN Properties[i])
           => ~payload.isOn

\* C9, amended: the first map, in order, that holds a boolean "online" or a
\* string "powerState" decides: on is the value of that boolean "online",
\* or else whether that "powerState" is exactly "on"; off when no map holds
\* either; [{"brightness":50},{"powerState":"on"}] yields on=true.
C9_FirstMapDecides ==
    StateAnswered =>
        LET deciding == {i \in 1..Len(Properties) :
                            HasBoolOnline(Properties[i]) \/ HasStringPower(Properties[i])}
        IN  IF deciding = {} THEN ~payload.isOn
            ELSE LET first == CHOOSE i \in deciding : \A j \in deciding : i <= j
                     prop == Properties[first]
                 IN payload.isOn = IF HasBoolOnline(prop) THEN prop["online"].b
                                   ELSE prop["powerState"].s = "on"

C9_Witness ==
    /\ StateAnswered
    /\ Len(Properties) = 2
    /\ DOMAIN Properties[1] = {"brightness"}
    /\ DOMAIN Properties[2] = {"powerState"}
    /\ Properties[2]["powerState"] = PStr("on")
    /\ payload.isOn

\* A stream query that was answered from a bridge entry.
StreamAnswered == Served("stream") /\ resp.status = 200
FlagTrue(key) ==
    answers[1].entry.parses /\ answers[1].entry[key].t = "bool" /\ answers[1].entry[key].b

\* C10: the derived status is "online" iff the entry's connected flag and
\* enabled flag are both true, and "offline" otherwise, a missing flag
\* included.
C10_StatusFromFlags ==
    StreamAnswered =>
        payload.camera.status =
            IF FlagTrue("connected") /\ FlagTrue("enabled") THEN "online" ELSE "offline"

C10_Witness ==
    /\ StreamAnswered
    /\ answers[1].entry.parses
    /\ answers[1].entry.connected = FBool(TRUE)
    /\ answers[1].entry.enabled = FBool(FALSE)
    /\ payload.camera.status = "offline"

\* C11: for the bridge host H and the camera's URL-safe name U the stream
\* endpoints are exactly http://H:8888/U/stream.m3u8, rtsp://H:8554/U and
\* http://H:8889/U/, streamUrl is the HLS endpoint, and H is the configured
\* bridge URL with its scheme, port and path removed.
C11_StreamEndpoints ==
    StreamAnswered =>
        \A a \in BridgeAddresses :
            bridgeURL = NewClient(URLOf(a)) =>
                LET H == a.host
                    U == payload.camera.nameUri
                IN  /\ payload.camera.streams.hls = <<"http://", H, ":", "8888", "/", U, "/stream.m3u8">>
                    /\ payload.camera.streams.rtsp = <<"rtsp://", H, ":", "8554", "/", U>>
                    /\ payload.camera.streams.webrtc = <<"http://", H, ":", "8889", "/", U, "/">>
                    /\ payload.camera.streamUrl = payload.camera.streams.hls

\* The method each handler serves, and whether the request reached the
\* handler with that method and a body it could decode.
ServedMethod(h) ==
    IF h \in {"control", "pair", "command", "toggle"} THEN "POST" ELSE "GET"
MethodServed == handler = "health" \/ req.method = ServedMethod(handler)
BodyDecoded ==
    CASE handler = "control" -> ControlDecodes(req.body)
      [] handler = "pair" -> PairDecodes(req.body)
      [] handler = "command" -> ~req.body.malformed
      [] handler = "toggle" -> ToggleDecodes(req.body)
      [] OTHER -> TRUE
Enveloped == resp.ctype = "json" /\ resp.envelope

Unreachable == \E i \in 1..Len(answers) : answers[i].transport

\* C13: when an adapter call fails because the upstream could not be
\* reached, the light control and state, Fire TV discover, pair and command
\* and camera list and stream handlers answer with a 5xx status and
\* success=false, never with 400 or 404.
C13_UnreachableIs5xx ==
    (/\ pc = "done"
     /\ handler \in {"control", "state", "discover", "pair", "command", "cameras", "stream"}
     /\ Unreachable)
    => /\ resp.status \in 500..599
       /\ ~resp.success

\* The bridge answered the stream query's request with 404.
BridgeSaidNotFound ==
    Len(answers) = 1 /\ ~answers[1].transport /\ answers[1].status = StatusNotFound

\* C14: GetCamera fails with the not-found error when the bridge answers
\* 404, and the stream endpoint answers 404 if and only if the bridge did:
\* another non-200 bridge status or an unreachable bridge is not reported
\* as 404.
C14_NotFoundIffAbsent ==
    Served("stream") =>
        /\ BridgeSaidNotFound => calls[1].err.kind = "camera not found"
        /\ resp.status = StatusNotFound <=> BridgeSaidNotFound

\* The message an upstream's error answer exposes: the message of its
\* structured error payload, else the text of the body.
ExposedMessage(api, reply) ==
    CASE api = "govee" -> reply.msg
      [] api = "firetv" -> IF reply.parses /\ reply.detail # "" THEN reply.detail ELSE "raw body"
      [] OTHER -> "raw body"

\* C15: for every adapter operation, a non-2xx upstream answer produces an
\* error carrying the upstream status and, as its message, the message of
\* the structured error payload when the body is one and the raw body text
\* otherwise.
C15_UpstreamErrorMessage ==
    pc = "done" =>
        \A i \in 1..Len(answers) :
            (~answers[i].transport /\ answers[i].status # StatusOK) =>
                LET e == calls[i].err
                IN  /\ e.kind # "nil"
                    /\ e.status = answers[i].status \/ e.code = answers[i].status
                    /\ e.msg = ExposedMessage(upstream[i].api, answers[i])

\* An upstream answer that makes the adapter call fail outright.
FailedAnswer(reply) == reply.transport \/ reply.status # StatusOK

\* C16: every adapter operation sends at most one upstream request, a
\* failed request makes the operation return its error at once, and no
\* handler invokes the same operation twice for one request (the device
\* list calls each client once).
C16_NoRetry ==
    pc = "done" =>
        /\ Len(upstream) <= Len(calls)
        /\ Len(answers) = Len(upstream)
        /\ handler # "devices" => Len(calls) <= 1
        /\ handler = "devices" =>
              /\ Len(calls) <= goveeClients
              /\ \A i, j \in 1..Len(calls) : i # j => calls[i].client # calls[j].client
        /\ \A i \in 1..Len(answers) : FailedAnswer(answers[i]) => calls[i].err # NilErr

C16_Witness ==
    /\ Served("control")
    /\ Len(calls) = 1
    /\ Len(upstream) = 1
    /\ answers[1].transport
    /\ calls[1].err # NilErr
    /\ ~resp.success

\* C17: each of the nine operation handlers answers a request whose
\* method is not the one it serves with 405, whatever the body or query
\* holds, and invokes no adapter operation.
C17_MethodNotAllowed ==
    (pc = "done" /\ handler # "health" /\ req.method # ServedMethod(handler)) =>
        /\ resp.status = StatusMethodNotAllowed
        /\ calls = <<>>
        /\ upstream = <<>>

C17_Witness ==
    /\ Served("stream")
    /\ req.method = "POST"
    /\ req.name = ""
    /\ resp.status = StatusMethodNotAllowed
    /\ calls = <<>>

\* C18: the health check answers 200 with status "healthy" whatever the
\* upstreams would answer and whatever was served before, and invokes no
\* adapter operation.
C18_HealthFixed ==
    Served("health") =>
        /\ resp.status = StatusOK
        /\ payload.status = "healthy"
        /\ calls = <<>>
        /\ upstream = <<>>

C18_Witness ==
    /\ Served("health")
    /\ req.method = "POST"
    /\ resp.status = StatusOK
    /\ payload.status = "healthy"

\* A field the bridge gave as a non-empty string.
Given(raw, key) == raw.parses /\ raw[key].t = "str" /\ raw[key].s # ""
OrElse(raw, key, fallback) == IF Given(raw, key) THEN raw[key].s ELSE fallback

\* The camera parseCameraEntry is to return for entry raw found under key.
Normalized(camera, raw, key) ==
    /\ camera.name = OrElse(raw, "nickname", key)
    /\ camera.nameUri = OrElse(raw, "name_uri", key)
    /\ camera.model = OrElse(raw, "model_name", OrElse(raw, "product_model", "Wyze Camera"))

\* C19: normalization never fails: whatever entry the bridge returns, also
\* one without known fields or one that does not parse, the camera has the
\* nickname or else the scan key as its name, name_uri or else the scan key
\* as its URL-safe name, and model_name, else product_model, else
\* "Wyze Camera" as its model.
C19_NormalizationFallbacks ==
    /\ (Served("stream") /\ Len(answers) = 1 /\ ~FailedAnswer(answers[1])) =>
          /\ resp.status = StatusOK
          /\ Normalized(payload.camera, answers[1].entry, req.name)
    /\ (Served("cameras") /\ Len(answers) = 1 /\ ~FailedAnswer(answers[1]) /\ answers[1].parses) =>
          /\ resp.status = StatusOK
          /\ Len(payload.cameras) = Cardinality(DOMAIN answers[1].entries)
          /\ \A k \in DOMAIN answers[1].entries :
                \E i \in 1..Len(payload.cameras) :
                    Normalized(payload.cameras[i], answers[1].entries[k], k)

C19_Witness ==
    /\ Served("stream")
    /\ resp.status = StatusOK
    /\ ~answers[1].entry.parses
    /\ payload.camera.name = req.name
    /\ payload.camera.model = "Wyze Camera"

\* The outcome of the request in a slot had it been handled alone with the
\* same upstream answers.
HandledAlone(slot) == Handle(slot.handler, goveeClients, bridgeURL, slot.req, slot.replies)

PairForwardable == PairWithHost /\ PairDecodes(req.body)
\* The earlier requests that forwarded a phase-1 request for the host.
StartedBefore(host) ==
    {i \in 1..Len(earlier) : /\ earlier[i].handler = "pair"
                             /\ Len(earlier[i].upstream) = 1
                             /\ earlier[i].upstream[1].host = host
                             /\ ~earlier[i].upstream[1].hasPin}

\* C21: the gateway keeps no pairing state: whatever pair requests were
\* served before, for the same host or another, the adapter call of a pair
\* request and the request it forwards are those of its own host and pin
\* alone; a phase-2 request is forwarded without a phase-1 request for its
\* host before it, and a repeated phase-1 request is forwarded again.
C21_NoPairingState ==
    PairForwardable =>
        LET pin == DecodedPIN(req.body)
        IN  /\ Len(calls) = 1
            /\ calls[1].host = req.body.host
            /\ calls[1].pin = pin
            /\ calls[1].op = IF pin = <<>> THEN "StartPairing" ELSE "FinishPairing"
            /\ upstream = <<PairSent(req.body.host, pin)>>

C21_Witness ==
    /\ PairForwardable
    /\ Len(earlier) = MaxEarlier
    /\ earlier[1].handler = "pair"
    /\ earlier[1].upstream = <<PairSent("10.0.0.6", <<>>)>>
    /\ StartedBefore("10.0.0.5") = {}
    /\ calls[1].op = "FinishPairing"
    /\ upstream = <<PairSent("10.0.0.5", <<"1", "2", "1">>)>>

\* C22: when every account fails or every account lists no device, the
\* device listing still answers 200 with an empty JSON array: not null and
\* not an error body.
C22_EmptyListIsArray ==
    (/\ Served("devices")
     /\ req.method = "GET"
     /\ \A i \in Accounts : AccountFailed(i) \/ answers[i + 1].devices = <<>>)
    => /\ resp.status = StatusOK
       /\ resp.ctype = "json"
       /\ payload.devices = <<>>
       /\ payload.encoding = "array"

\* A control request that passed the index, command and shape validation.
ControlValidated ==
    /\ ControlRouted
    /\ RoutedIndexInRange
    /\ req.body.command \in KnownCommands
    /\ ShapeMatches(req.body.command, req.body.value)

\* C23: a control request is answered 200 with success=true if and only if
\* it passed the index, command and shape validation and the adapter
\* operation it invoked returned no error; when the operation returns an
\* error the response has success=false and the error's text as message.
C23_SuccessIffNoError ==
    Served("control") =>
        /\ (resp.status = StatusOK /\ Enveloped /\ resp.success)
              <=> (ControlValidated /\ Len(calls) = 1 /\ calls[1].err = NilErr)
        /\ resp.success => resp.status = StatusOK
        /\ ControlValidated => Len(calls) = 1
        /\ \A i \in 1..Len(calls) :
              calls[i].err # NilErr => /\ Enveloped
                                       /\ ~resp.success
                                       /\ resp.message = calls[i].err

C23_Witness ==
    /\ ControlValidated
    /\ req.body.command = "turn"
    /\ Len(upstream) = 1
    /\ answers[1].status = StatusOK
    /\ answers[1].parses
    /\ answers[1].code = StatusBadRequest
    /\ ~resp.success
    /\ resp.message.kind = "govee API error"
    /\ resp.message.msg = answers[1].msg

\* A brightness request that reached the switch with a numeric value.
BrightnessRouted ==
    /\ ControlRouted
    /\ RoutedIndexInRange
    /\ req.body.command = "brightness"
    /\ req.body.value.t = "num"

\* C24: a brightness value must be an integer in 0..100: a number that is
\* fractional, below 0 or above 100 fails validation before any network
\* call, and whenever an upstream request is sent the level it carries
\* equals the value of the request.
C24_BrightnessInteger ==
    BrightnessRouted =>
        LET h == req.body.value.h
        IN  /\ (h % 2 # 0 \/ h < 0 \/ h > 2 * MaxBrightness) =>
                  /\ upstream = <<>>
                  /\ ~resp.success
            /\ \A i \in 1..Len(upstream) :
                  /\ upstream[i].value.t = "int"
                  /\ 2 * upstream[i].value.n = h

\* The last request lacks a field its operation requires (a field left out
\* decodes to the empty string).
LacksRequiredField ==
    CASE handler = "control" -> req.body.deviceId = "" \/ req.body.model = ""
      [] handler = "state" -> req.deviceId = "" \/ req.model = ""
      [] handler = "pair" -> req.body.host = ""
      [] handler = "command" -> req.body.host = "" \/ req.body.command = ""
      [] handler = "stream" -> req.name = ""
      [] OTHER -> FALSE

\* C25: a request with the served method and a decodable body that lacks a
\* required field (deviceId or model for light control and light state,
\* host for pair, host or command for a Fire TV command, name for the
\* camera stream query) is answered 400 and no adapter operation is
\* invoked for it.
C25_RequiredFields ==
    (pc = "done" /\ MethodServed /\ BodyDecoded /\ LacksRequiredField) =>
        /\ resp.status = StatusBadRequest
        /\ calls = <<>>
        /\ upstream = <<>>

\* The adapter operation a validated control request is to invoke.
RoutedOperation ==
    LET v == req.body.value
    IN  CASE req.body.command = "turn" -> IF v.b THEN "TurnOn" ELSE "TurnOff"
          [] req.body.command = "brightness" -> "SetBrightness"
          [] OTHER -> "SetColor"

\* C26: a control request that passes validation causes exactly one adapter
\* operation, on the client at position apiKeyIndex and on no other: "turn"
\* with true calls TurnOn (upstream value "on"), "turn" with false calls
\* TurnOff ("off"), "brightness" calls SetBrightness and "color" SetColor.
C26_OneOperationOnIndexedClient ==
    ControlValidated =>
        /\ Len(calls) = 1
        /\ calls[1].client = RoutedIndex
        /\ calls[1].op = RoutedOperation
        /\ calls[1].deviceID = req.body.deviceId
        /\ calls[1].model = req.body.model
        /\ Len(upstream) <= 1
        /\ \A i \in 1..Len(upstream) :
              /\ upstream[i].key = RoutedIndex
              /\ upstream[i].cmd = req.body.command
        /\ req.body.command = "turn" =>
              upstream = <<ControlSent(RoutedIndex, req.body.deviceId, req.body.model, "turn",
                                       CmdStr(IF req.body.value.b THEN "on" ELSE "off"))>>

C26_Witness ==
    /\ ControlValidated
    /\ goveeClients = 2
    /\ RoutedIndex = 1
    /\ req.body.command = "turn"
    /\ req.body.value = JBool(FALSE)
    /\ calls[1].op = "TurnOff"
    /\ calls[1].client = 1
    /\ upstream[1].key = 1
    /\ upstream[1].value = CmdStr("off")

\* A property map that decides the state, and what it decides.
Decides(prop) == HasBoolOnline(prop) \/ HasStringPower(prop)
Verdict(prop) == IF HasBoolOnline(prop) THEN prop["online"].b ELSE prop["powerState"].s = "on"

\* C27: the state is decided only by the first property map, in upstream
\* order, that holds a boolean "online" or a string "powerState": within
\* one map a boolean "online" comes before "powerState", an "online" that
\* is not boolean and a "powerState" that is not a string are skipped, and
\* no later map changes what an earlier one decided.
C27_FirstDecidingMap ==
    StateAnswered =>
        /\ \A i \in 1..Len(Properties) :
              (Decides(Properties[i]) /\ \A j \in 1..(i - 1) : ~Decides(Properties[j]))
              => payload.isOn = Verdict(Properties[i])
        /\ (\A i \in 1..Len(Properties) : ~Decides(Properties[i])) => ~payload.isOn

C27_Witness ==
    /\ StateAnswered
    /\ Len(Properties) = 2
    /\ DOMAIN Properties[1] = {"online", "powerState"}
    /\ Properties[1]["online"] = PStr("true")
    /\ Properties[1]["powerState"] = PNum
    /\ DOMAIN Properties[2] = {"online", "powerState"}
    /\ Properties[2]["online"] = PBool(FALSE)
    /\ Properties[2]["powerState"] = PStr("on")
    /\ ~payload.isOn

\* The text shows more of the PIN than its first two characters.
ShowsBeyondTwo(text, pin) == Len(pin) > 2 /\ Index(text, SubSeq(pin, 1, 3)) # -1

\* C28: no log line written while a pair request is handled, by the
\* handler or by the Fire TV client it calls, holds more than the first two
\* characters of the supplied PIN, whatever the PIN's length.
C28_PinMaskedInLogs ==
    (Served("pair") /\ req.body.pin.t = "str") =>
        \A i \in 1..Len(logged) : ~ShowsBeyondTwo(logged[i].shown, req.body.pin.s)

\* The upstream accepted the command: HTTP 200 and a body that parses with
\* code 200.
Accepted(reply) ==
    ~reply.transport /\ reply.status = StatusOK /\ reply.parses /\ reply.code = StatusOK

\* C29: sendControlCommand returns no error only when the upstream answers
\* HTTP 200 and the code of the parsed body is 200 as well; an HTTP 200
\* answer whose body carries another code or does not parse is an error,
\* and the control request is answered with success=false.
C29_SuccessNeedsCode200 ==
    Served("control") =>
        /\ Len(answers) = Len(upstream)
        /\ \A i \in 1..Len(answers) :
              /\ calls[i].err = NilErr <=> Accepted(answers[i])
              /\ (~answers[i].transport /\ answers[i].status = StatusOK /\ ~Accepted(answers[i])) =>
                    /\ calls[i].err.kind \in {"govee API error", "failed to parse response"}
                    /\ Enveloped
                    /\ ~resp.success
        /\ resp.success => Len(answers) = 1

C29_Witness ==
    /\ Served("control")
    /\ Len(answers) = 1
    /\ ~answers[1].transport
    /\ answers[1].status = StatusOK
    /\ ~answers[1].parses
    /\ calls[1].err.kind = "failed to parse response"
    /\ ~resp.success

\* C30: for a bridge response that does not change, every list query
\* returns the same camera list: one entry per key of the response object,
\* none dropped or duplicated, and in the same order on every query.
C30_SameListEveryQuery ==
    (Served("cameras") /\ resp.status = StatusOK) =>
        /\ Len(payload.cameras) = Cardinality(DOMAIN answers[1].entries)
        /\ \A k \in DOMAIN answers[1].entries :
              Cardinality({i \in 1..Len(payload.cameras) : payload.cameras[i].name = k}) = 1
        /\ \A i \in 1..Len(earlier) :
              (earlier[i].handler = "cameras" /\ earlier[i].answers = answers)
              => earlier[i].payload = payload

====
